---------------------------- MODULE Spec2Model ----------------------------
(***************************************************************************)
(* Privacy Guardian: the classification and risk-scoring engine.           *)
(*                                                                         *)
(* Text is modelled as a sequence of one-character strings.  The token     *)
(* "sup2" stands for the character SUPERSCRIPT TWO (U+00B2): Python's      *)
(* str.isdigit() is True for it, int() raises ValueError on it and the     *)
(* regular expression class \d does not match it.                          *)
(* Confidences are ten-thousandths: 1000 is 0.1, 10000 is 1.0.             *)
(***************************************************************************)
EXTENDS Integers, Sequences, FiniteSets, TLC

(***************************************************************************)
(* Bounds of the model                                                     *)
(***************************************************************************)
MaxCols == 2        \* columns of an uploaded dataset
MaxRequests == 2    \* requests served in one process lifetime
MaxSessions == 2    \* sessions created in one process lifetime
MaxHours == 26      \* hours the clock runs
TickHours == 13     \* hours between two readings of the clock

(***************************************************************************)
(* Characters and Python's str operations                                  *)
(***************************************************************************)
AsciiDigits == {"0","1","2","3","4","5","6","7","8","9"}
UpperLetters == {"A","B","C","D","E","F","G","H","I","J","K","L","M",
                 "N","O","P","Q","R","S","T","U","V","W","X","Y","Z"}
LowerLetters == {"a","b","c","d","e","f","g","h","i","j","k","l","m",
                 "n","o","p","q","r","s","t","u","v","w","x","y","z"}
Whitespace == {" "}
Punctuation == {"@", ".", "-", "_", "/", "+", "(", ")", ",", ":"}
Chars == AsciiDigits \cup UpperLetters \cup LowerLetters \cup Whitespace
         \cup Punctuation \cup {"sup2"}

\* str.isdigit()
isdigit(ch) == ch \in AsciiDigits \cup {"sup2"}

\* int(ch) for one character: -1 stands for ValueError
int(ch) ==
    CASE ch = "0" -> 0 [] ch = "1" -> 1 [] ch = "2" -> 2 [] ch = "3" -> 3
      [] ch = "4" -> 4 [] ch = "5" -> 5 [] ch = "6" -> 6 [] ch = "7" -> 7
      [] ch = "8" -> 8 [] ch = "9" -> 9 [] OTHER -> -1

LowerOf ==
    [ch \in UpperLetters |->
        CASE ch = "A" -> "a" [] ch = "B" -> "b" [] ch = "C" -> "c" [] ch = "D" -> "d"
          [] ch = "E" -> "e" [] ch = "F" -> "f" [] ch = "G" -> "g" [] ch = "H" -> "h"
          [] ch = "I" -> "i" [] ch = "J" -> "j" [] ch = "K" -> "k" [] ch = "L" -> "l"
          [] ch = "M" -> "m" [] ch = "N" -> "n" [] ch = "O" -> "o" [] ch = "P" -> "p"
          [] ch = "Q" -> "q" [] ch = "R" -> "r" [] ch = "S" -> "s" [] ch = "T" -> "t"
          [] ch = "U" -> "u" [] ch = "V" -> "v" [] ch = "W" -> "w" [] ch = "X" -> "x"
          [] ch = "Y" -> "y" [] ch = "Z" -> "z"]

\* str.lower()
lower(s) == [k \in 1..Len(s) |-> IF s[k] \in UpperLetters THEN LowerOf[s[k]] ELSE s[k]]

\* str.strip()
RECURSIVE lstrip(_)
lstrip(s) == IF s # <<>> /\ Head(s) \in Whitespace THEN lstrip(Tail(s)) ELSE s
RECURSIVE rstrip(_)
rstrip(s) ==
    IF s # <<>> /\ s[Len(s)] \in Whitespace THEN rstrip(SubSeq(s, 1, Len(s) - 1)) ELSE s
strip(s) == rstrip(lstrip(s))

\* `h in s` for strings
contains(s, h) ==
    \E k \in 0..(Len(s) - Len(h)) : SubSeq(s, k + 1, k + Len(h)) = h

(***************************************************************************)
(* Risk levels, ordered Low < Medium < High                                *)
(***************************************************************************)
RISK_LEVELS == {"High", "Medium", "Low"}
risk_hierarchy == [r \in RISK_LEVELS |-> CASE r = "Low" -> 0 [] r = "Medium" -> 1 [] r = "High" -> 2]
risk_of_rank == <<"Low", "Medium", "High">>
Max(a, b) == IF a >= b THEN a ELSE b

(***************************************************************************)
(* risk_assessment.py: keyword sets and name risk                          *)
(***************************************************************************)
HIGH_NAME_HINTS ==
    { <<"s","i","n">>,
      <<"s","o","c","i","a","l","_","i","n","s","u","r","a","n","c","e">>,
      <<"s","s","n">>,
      <<"c","r","e","d","i","t">>,
      <<"c","a","r","d">>,
      <<"c","c">>,
      <<"i","b","a","n">>,
      <<"a","c","c","o","u","n","t">>,
      <<"r","o","u","t","i","n","g">>,
      <<"m","e","d","i","c","a","l">>,
      <<"h","e","a","l","t","h">>,
      <<"d","i","a","g","n","o","s","i","s">>,
      <<"m","r","n">>,
      <<"i","n","s","u","r","a","n","c","e","_","i","d">>,
      <<"p","a","s","s","p","o","r","t">>,
      <<"d","r","i","v","e","r">>,
      <<"l","i","c","e","n","s","e">> }
MEDIUM_NAME_HINTS ==
    { <<"e","m","a","i","l">>,
      <<"p","h","o","n","e">>,
      <<"m","o","b","i","l","e">>,
      <<"d","o","b">>,
      <<"b","i","r","t","h">>,
      <<"a","d","d","r","e","s","s">>,
      <<"p","o","s","t","a","l">>,
      <<"z","i","p">>,
      <<"c","i","t","y">>,
      <<"p","r","o","v","i","n","c","e">>,
      <<"s","t","a","t","e">>,
      <<"i","p">>,
      <<"l","o","c","a","t","i","o","n">>,
      <<"l","a","t">>,
      <<"l","o","n">>,
      <<"g","e","o","c","o","d","e">> }

\* _column_risk_by_name with the Medium keywords looked up first
_column_risk_by_name_medium_first(col) ==
    LET col_l == lower(col) IN
    IF \E h \in MEDIUM_NAME_HINTS : contains(col_l, h) THEN "Medium"
    ELSE IF \E h \in HIGH_NAME_HINTS : contains(col_l, h) THEN "High"
    ELSE "Low"

_column_risk_by_name(col) ==
    LET col_l == lower(col) IN
    IF \E h \in HIGH_NAME_HINTS : contains(col_l, h) THEN "High"
    ELSE IF \E h \in MEDIUM_NAME_HINTS : contains(col_l, h) THEN "Medium"
    ELSE "Low"

(***************************************************************************)
(* Regular expressions of Python's re module, restricted to the forms the  *)
(* patterns use: character classes, concatenation, bounded and unbounded   *)
(* repetition, alternation.  Ends(r, s, I) is the set of positions where a *)
(* match of r that starts at a position of I can end.                      *)
(***************************************************************************)
Cls(U) == [k |-> "cls", s |-> U]
Lit(ch) == Cls({ch})
Cat(parts) == [k |-> "cat", parts |-> parts]
Rep(r, lo, hi) == [k |-> "rep", r |-> r, lo |-> lo, hi |-> hi]   \* hi = -1: no upper limit
Alt(a, b) == [k |-> "alt", a |-> a, b |-> b]
Opt(r) == Rep(r, 0, 1)
Plus(r) == Rep(r, 1, -1)
Star(r) == Rep(r, 0, -1)
Times(r, n) == Rep(r, n, n)

RECURSIVE Ends(_, _, _)
Ends(r, s, I) ==
    CASE r.k = "cls" -> {j + 1 : j \in {q \in I : q < Len(s) /\ s[q + 1] \in r.s}}
      [] r.k = "cat" ->
             IF Len(r.parts) = 0 THEN I
             ELSE Ends(Cat(Tail(r.parts)), s, Ends(Head(r.parts), s, I))
      [] r.k = "alt" -> Ends(r.a, s, I) \cup Ends(r.b, s, I)
      [] r.k = "rep" ->
             IF I = {} THEN {}
             ELSE IF r.lo > 0
                  THEN Ends(Rep(r.r, r.lo - 1, IF r.hi = -1 THEN -1 ELSE r.hi - 1),
                            s, Ends(r.r, s, I))
             ELSE IF r.hi = 0 THEN I
             ELSE I \cup Ends(Rep(r.r, 0, IF r.hi = -1 THEN -1 ELSE r.hi - 1),
                              s, Ends(r.r, s, I))

\* RE.match(s) for a pattern anchored with ^ and $ (s holds no newline)
re_match(r, s) == Len(s) \in Ends(r, s, {0})

\* \d and \s of a str pattern
Digit == Cls(AsciiDigits)
Space == Cls(Whitespace)
DashOrSpace == Cls({"-"} \cup Whitespace)
NotAtOrSpace == Cls(Chars \ ({"@"} \cup Whitespace))

\* ^[^@\s]+@[^@\s]+\.[^@\s]+$
EMAIL_RE == Cat(<<Plus(NotAtOrSpace), Lit("@"), Plus(NotAtOrSpace), Lit("."), Plus(NotAtOrSpace)>>)
\* ^\+?[\d\s().-]{7,}$
PHONE_RE == Cat(<<Opt(Lit("+")),
                  Rep(Cls(AsciiDigits \cup Whitespace \cup {"(", ")", ".", "-"}), 7, -1)>>)
\* ^\d{3}[-\s]?\d{3}[-\s]?\d{3}$
SIN_RE == Cat(<<Times(Digit, 3), Opt(DashOrSpace), Times(Digit, 3), Opt(DashOrSpace), Times(Digit, 3)>>)
\* ^\d{4}[-\s]?\d{4}[-\s]?\d{4}[-\s]?\d{4}$
CREDIT_CARD_RE == Cat(<<Times(Digit, 4), Opt(DashOrSpace), Times(Digit, 4), Opt(DashOrSpace),
                        Times(Digit, 4), Opt(DashOrSpace), Times(Digit, 4)>>)
\* ^\d{4}-\d{2}-\d{2}$|^\d{2}/\d{2}/\d{4}$
DOB_RE == Alt(Cat(<<Times(Digit, 4), Lit("-"), Times(Digit, 2), Lit("-"), Times(Digit, 2)>>),
              Cat(<<Times(Digit, 2), Lit("/"), Times(Digit, 2), Lit("/"), Times(Digit, 4)>>))
\* ^[ABCEGHJ-NPRSTVXY]\d[ABCEGHJ-NPRSTV-Z](?:\s)?\d[ABCEGHJ-NPRSTV-Z]\d$  with re.IGNORECASE
PostalFirst == {"A","B","C","E","G","H","J","K","L","M","N","P","R","S","T","V","X","Y"}
PostalOther == {"A","B","C","E","G","H","J","K","L","M","N","P","R","S","T","V","W","X","Y","Z"}
IgnoreCase(U) == U \cup {LowerOf[ch] : ch \in U}
POSTAL_CA_RE == Cat(<<Cls(IgnoreCase(PostalFirst)), Digit, Cls(IgnoreCase(PostalOther)), Opt(Space),
                      Digit, Cls(IgnoreCase(PostalOther)), Digit>>)
\* ^(?:\d{1,3}\.){3}\d{1,3}$
IP_RE == Cat(<<Times(Cat(<<Rep(Digit, 1, 3), Lit(".")>>), 3), Rep(Digit, 1, 3)>>)
\* ^-?\d{1,3}\.\d+,\s*-?\d{1,3}\.\d+$
LATLON_RE == Cat(<<Opt(Lit("-")), Rep(Digit, 1, 3), Lit("."), Plus(Digit), Lit(","), Star(Space),
                   Opt(Lit("-")), Rep(Digit, 1, 3), Lit("."), Plus(Digit)>>)

(***************************************************************************)
(* Cells and series.  A cell of a column is a missing value (None, NaN) or *)
(* a value; text is what str() gives for the value.                        *)
(***************************************************************************)
NA == [na |-> TRUE, text |-> <<>>]
Val(s) == [na |-> FALSE, text |-> s]

\* _cell_risk_by_value with the Medium patterns tried first
_cell_risk_by_value_medium_first(v) ==
    IF v.na THEN "Low"
    ELSE LET s == strip(v.text) IN
         IF s = <<>> THEN "Low"
         ELSE IF re_match(PHONE_RE, s) \/ re_match(DOB_RE, s) \/ re_match(POSTAL_CA_RE, s)
                 \/ re_match(IP_RE, s) \/ re_match(LATLON_RE, s)
              THEN "Medium"
         ELSE IF re_match(EMAIL_RE, s) \/ re_match(SIN_RE, s) \/ re_match(CREDIT_CARD_RE, s)
              THEN "High"
         ELSE "Low"

_cell_risk_by_value(v) ==
    IF v.na THEN "Low"
    ELSE LET s == strip(v.text) IN
         IF s = <<>> THEN "Low"
         ELSE IF re_match(EMAIL_RE, s) \/ re_match(SIN_RE, s) \/ re_match(CREDIT_CARD_RE, s)
              THEN "High"
         ELSE IF re_match(PHONE_RE, s) \/ re_match(DOB_RE, s) \/ re_match(POSTAL_CA_RE, s)
                 \/ re_match(IP_RE, s) \/ re_match(LATLON_RE, s)
              THEN "Medium"
         ELSE "Low"

SAMPLE_SIZE == 200
NotNa(c) == ~c.na
\* series.dropna().astype(str).head(n).tolist()
sample_of(series, n) ==
    LET kept == SelectSeq(series, NotNa)
        texts == [k \in 1..Len(kept) |-> kept[k].text]
    IN  SubSeq(texts, 1, IF Len(texts) < n THEN Len(texts) ELSE n)

MaxOf(S) == CHOOSE m \in S : \A x \in S : m >= x
MinOf(S) == CHOOSE m \in S : \A x \in S : m <= x

\* value_risk_rank with the loop left as soon as Medium is seen
value_risk_rank_break_at_medium(sample, val_risk_rank) ==
    LET rank(k) == risk_hierarchy[_cell_risk_by_value(Val(sample[k]))]
        stops == {k \in 1..Len(sample) : Max(val_risk_rank, rank(k)) >= 1}
        last == IF stops = {} THEN Len(sample) ELSE MinOf(stops)
    IN  MaxOf({val_risk_rank} \cup {rank(k) : k \in 1..last})

\* the loop over the sample, lines 55-59: the running maximum of the ranks,
\* the loop left at the first value that brings it to 2; last is the index of
\* the last value the loop looks at
value_risk_rank(sample, val_risk_rank) ==
    LET rank(k) == risk_hierarchy[_cell_risk_by_value(Val(sample[k]))]
        stops == {k \in 1..Len(sample) : Max(val_risk_rank, rank(k)) = 2}
        last == IF stops = {} THEN Len(sample) ELSE MinOf(stops)
    IN  MaxOf({val_risk_rank} \cup {rank(k) : k \in 1..last})

classify_series(name, series) ==
    LET name_risk == _column_risk_by_name(name)
        sample == sample_of(series, SAMPLE_SIZE)
        value_risk == risk_of_rank[value_risk_rank(sample, 0) + 1]
        final_risk == risk_of_rank[Max(risk_hierarchy[name_risk], risk_hierarchy[value_risk]) + 1]
    IN  [column |-> name, name_hint_risk |-> name_risk,
         value_sample_risk |-> value_risk, final_risk |-> final_risk]

\* a DataFrame is the sequence of its columns, each a name and a series
classify_dataframe(df) == [c \in 1..Len(df) |-> classify_series(df[c].name, df[c].series)]

CountRisk(results, field, level) == Cardinality({c \in 1..Len(results) : results[c][field] = level})
summarize_risk_levels(results) ==
    [level \in RISK_LEVELS |-> CountRisk(results, "final_risk", level)]

(***************************************************************************)
(* risk_scoring_enhancements.py: checksum validators and enhanced verdict  *)
(***************************************************************************)
\* the outcome of a call: a returned value or a raised exception
Return(v) == [raised |-> FALSE, value |-> v]
Raise(e) == [raised |-> TRUE, exc |-> e]

\* [int(ch) for ch in number_str if ch.isdigit()]
digit_chars(number_str) == SelectSeq(number_str, isdigit)
digits_of(number_str) == [k \in 1..Len(digit_chars(number_str)) |-> int(digit_chars(number_str)[k])]
int_raises(number_str) == \E k \in 1..Len(number_str) : isdigit(number_str[k]) /\ int(number_str[k]) = -1

\* luhn_sum without `digit -= 9`
RECURSIVE luhn_sum_no_fold(_, _, _)
luhn_sum_no_fold(digits, i, parity) ==
    IF i >= Len(digits) THEN 0
    ELSE LET digit == digits[i + 1]
         IN  (IF i % 2 = parity THEN digit * 2 ELSE digit) + luhn_sum_no_fold(digits, i + 1, parity)

\* the loop of luhn_checksum from index i (0-based) on
RECURSIVE luhn_sum(_, _, _)
luhn_sum(digits, i, parity) ==
    IF i >= Len(digits) THEN 0
    ELSE LET digit == digits[i + 1]
             doubled == IF digit * 2 > 9 THEN digit * 2 - 9 ELSE digit * 2
         IN  (IF i % 2 = parity THEN doubled ELSE digit) + luhn_sum(digits, i + 1, parity)

luhn_checksum(number_str) ==
    IF int_raises(number_str) THEN Raise("ValueError")
    ELSE LET digits == digits_of(number_str) IN
         IF Len(digits) < 12 THEN Return(FALSE)
         ELSE Return(luhn_sum(digits, 0, Len(digits) % 2) % 10 = 0)

\* the loop of detect_sin over digits[:-1] from index idx (0-based) on
RECURSIVE sin_total(_, _)
sin_total(digits, idx) ==
    IF idx >= Len(digits) - 1 THEN 0
    ELSE LET d == digits[idx + 1]
             doubled == d * 2
         IN  (IF (idx + 1) % 2 = 0
              THEN (IF doubled < 10 THEN doubled ELSE doubled - 9)
              ELSE d) + sin_total(digits, idx + 1)

detect_sin(number_str) ==
    IF int_raises(number_str) THEN Raise("ValueError")
    ELSE LET digits == digits_of(number_str) IN
         IF Len(digits) # 9 THEN Return(FALSE)
         ELSE LET check_digit == (10 - (sin_total(digits, 0) % 10)) % 10
              IN  Return(check_digit = digits[Len(digits)])

\* the first loop of classify_series_enhanced, lines 80-89: "found" (flag set,
\* loop left), "none" (sample exhausted) or "raise" (a validator raised);
\* step(k) is what the loop does on the k-th value, "next" when it goes on
card_or_sin_scan(sample) ==
    LET step(k) ==
            LET s == digit_chars(sample[k]) IN
            IF Len(s) >= 12
            THEN (IF luhn_checksum(s).raised THEN "raise"
                  ELSE IF luhn_checksum(s).value THEN "found"
                  ELSE "next")
            ELSE IF Len(s) = 9
            THEN (IF detect_sin(s).raised THEN "raise"
                  ELSE IF detect_sin(s).value THEN "found"
                  ELSE "next")
            ELSE "next"
        ends == {k \in 1..Len(sample) : step(k) # "next"}
    IN  IF ends = {} THEN "none" ELSE step(MinOf(ends))

\* classify_series_enhanced with the flag left False
classify_series_enhanced_flag_unset(name, series) ==
    LET name_risk == _column_risk_by_name(name)
        sample == sample_of(series, SAMPLE_SIZE)
        scan == card_or_sin_scan(sample)
        final_rank == Max(risk_hierarchy[name_risk], value_risk_rank(sample, 0))
    IN  IF scan = "raise" THEN Raise("ValueError")
        ELSE Return([column |-> name,
                     final_risk |-> IF scan = "found" THEN "High" ELSE risk_of_rank[final_rank + 1],
                     contains_card_or_sin |-> FALSE])

classify_series_enhanced(name, series) ==
    LET name_risk == _column_risk_by_name(name)
        sample == sample_of(series, SAMPLE_SIZE)
        scan == card_or_sin_scan(sample)
        final_rank == Max(risk_hierarchy[name_risk], value_risk_rank(sample, 0))
    IN  IF scan = "raise" THEN Raise("ValueError")
        ELSE Return([column |-> name,
                     final_risk |-> IF scan = "found" THEN "High" ELSE risk_of_rank[final_rank + 1],
                     contains_card_or_sin |-> (scan = "found")])

\* the loop of classify_dataframe_enhanced from column c on, results so far in acc
RECURSIVE enhanced_loop(_, _, _)
enhanced_loop(df, c, acc) ==
    IF c > Len(df) THEN Return(acc)
    ELSE LET r == classify_series_enhanced(df[c].name, df[c].series) IN
         IF r.raised THEN r ELSE enhanced_loop(df, c + 1, Append(acc, r.value))

classify_dataframe_enhanced(df) == enhanced_loop(df, 1, <<>>)

\* r.get(key, default) of a dict
get(r, key, default) == IF key \in DOMAIN r THEN r[key] ELSE default

\* weight_sum with the rank of a level (0, 1, 2) for its weight
RECURSIVE weight_sum_by_rank(_, _)
weight_sum_by_rank(results, k) ==
    IF k > Len(results) THEN 0
    ELSE risk_hierarchy[get(results[k], "final_risk", "Low")] + weight_sum_by_rank(results, k + 1)

\* sum(... for r in results) of calculate_risk_score, from the k-th record on
RECURSIVE weight_sum(_, _)
weight_sum(results, k) ==
    IF k > Len(results) THEN 0
    ELSE LET level == get(results[k], "final_risk", "Low")
             weight == CASE level = "Low" -> 1 [] level = "Medium" -> 2 [] level = "High" -> 3
                         [] OTHER -> 1
         IN  weight + weight_sum(results, k + 1)

\* calculate_risk_score; pct is in thousandths of a percent, cut off
calculate_risk_score(results) ==
    LET score == weight_sum(results, 1)
        max_score == IF results # <<>> THEN 3 * Len(results) ELSE 0
        pct == IF max_score > 0 THEN (score * 100000) \div max_score ELSE 0
    IN  [score |-> score, max_score |-> max_score, pct |-> pct]

\* generate_recommendations without the lines for Medium columns
generate_recommendations_high_only(results) ==
    LET line(k) ==
            LET r == results[k]
                col_name == get(r, "column", <<"U","n","n","a","m","e","d">>)
            IN  IF get(r, "final_risk", "None") = "High"
                THEN (IF get(r, "contains_card_or_sin", FALSE)
                      THEN [wording |-> "credit card numbers or SINs", column |-> col_name]
                      ELSE [wording |-> "highly sensitive data", column |-> col_name])
                ELSE [wording |-> "", column |-> col_name]
        appended(l) == l.wording # ""
        recs == SelectSeq([k \in 1..Len(results) |-> line(k)], appended)
    IN  IF recs = <<>> THEN <<[wording |-> "low risk", column |-> <<>>]>> ELSE recs

\* generate_recommendations: a line is its wording and the column it names
generate_recommendations(results) ==
    LET line(k) ==
            LET r == results[k]
                col_name == get(r, "column", <<"U","n","n","a","m","e","d">>)
            IN  IF get(r, "final_risk", "None") = "High"
                THEN (IF get(r, "contains_card_or_sin", FALSE)
                      THEN [wording |-> "credit card numbers or SINs", column |-> col_name]
                      ELSE [wording |-> "highly sensitive data", column |-> col_name])
                ELSE IF get(r, "final_risk", "None") = "Medium"
                THEN [wording |-> "moderately sensitive data", column |-> col_name]
                ELSE [wording |-> "", column |-> col_name]
        appended(l) == l.wording # ""
        recs == SelectSeq([k \in 1..Len(results) |-> line(k)], appended)
    IN  IF recs = <<>> THEN <<[wording |-> "low risk", column |-> <<>>]>> ELSE recs

(***************************************************************************)
(* ml_risk_classifier.py: the statistical classifier                       *)
(***************************************************************************)
\* _generate_training_data: the number of examples and of labels per class,
\* in the order the lists are written
column_labels == [High |-> 13, Medium |-> 15, Low |-> 15]
\* column_names with one name for each label
column_names_one_per_label == [High |-> 13, Medium |-> 15, Low |-> 15]
column_names == [High |-> 23, Medium |-> 27, Low |-> 22]
data_patterns == [High |-> 10, Medium |-> 14, Low |-> 12]
pattern_labels == [High |-> 10, Medium |-> 13, Low |-> 11]
len(counts) == counts.High + counts.Medium + counts.Low

\* the estimators of MLRiskClassifier.__init__; `fitted` holds those that a
\* fit has completed on
Estimators == {"column_name_vectorizer", "data_pattern_vectorizer", "column_classifier",
               "pattern_classifier", "label_encoder"}

\* train_except with is_trained set although the training failed
train_except_marks_trained(f, trained) ==
    [next |-> "return", fitted |-> f, is_trained |-> TRUE, result |-> FALSE]

\* the except clause of train, lines 127-129: the exception is printed and
\* train returns False
train_except(f, trained) ==
    [next |-> "return", fitted |-> f, is_trained |-> trained, result |-> FALSE]

\* One statement of train (by its line), run on the estimators in state f.
\* next is the line that runs next, "return" when train returns.
train_line(line, f, trained) ==
    CASE line = "train_115" ->
             [next |-> "train_116", fitted |-> f \cup {"column_name_vectorizer"},
              is_trained |-> trained, result |-> FALSE]
      [] line = "train_116" ->
             [next |-> "train_117", fitted |-> f \cup {"label_encoder"},
              is_trained |-> trained, result |-> FALSE]
      [] line = "train_117" ->
             \* fit(X, y) raises ValueError on inconsistent numbers of samples
             IF len(column_names) # len(column_labels)
             THEN train_except(f, trained)
             ELSE [next |-> "train_120", fitted |-> f \cup {"column_classifier"},
                   is_trained |-> trained, result |-> FALSE]
      [] line = "train_120" ->
             [next |-> "train_121", fitted |-> f \cup {"data_pattern_vectorizer"},
              is_trained |-> trained, result |-> FALSE]
      [] line = "train_121" ->
             \* transform raises ValueError on a label the encoder has not seen
             IF \E level \in RISK_LEVELS : pattern_labels[level] > 0 /\ column_labels[level] = 0
             THEN train_except(f, trained)
             ELSE [next |-> "train_122", fitted |-> f, is_trained |-> trained, result |-> FALSE]
      [] line = "train_122" ->
             IF len(data_patterns) # len(pattern_labels)
             THEN train_except(f, trained)
             ELSE [next |-> "train_124", fitted |-> f \cup {"pattern_classifier"},
                   is_trained |-> trained, result |-> FALSE]
      [] line = "train_124" ->
             [next |-> "return", fitted |-> f, is_trained |-> TRUE, result |-> TRUE]
TrainLines == {"train_115", "train_116", "train_117", "train_120", "train_121",
               "train_122", "train_124"}

\* what a fitted classifier can answer: a class and the largest class probability
Confidences == {3334, 6667, 10000}
SAFE_DEFAULT == [risk |-> "Low", confidence |-> 1000]
Predictions == [risk : RISK_LEVELS, confidence : Confidences]

\* column_try with estimators that answer whether fitted or not
column_try_without_fit(f) == {Return(p) : p \in Predictions}

\* the try block of predict_column_risk: transform, predict, predict_proba and
\* inverse_transform raise NotFittedError on an estimator that is not fitted
column_try(f) ==
    IF {"column_name_vectorizer", "column_classifier", "label_encoder"} \subseteq f
    THEN {Return(p) : p \in Predictions}
    ELSE {Raise("NotFittedError")}

\* the try block of predict_data_risk
DATA_JOIN_SIZE == 50
sample_text(data_sample) ==
    SubSeq(data_sample, 1, IF Len(data_sample) < DATA_JOIN_SIZE THEN Len(data_sample) ELSE DATA_JOIN_SIZE)
data_try(f, text) ==
    IF {"data_pattern_vectorizer", "pattern_classifier", "label_encoder"} \subseteq f
    THEN {Return(p) : p \in Predictions}
    ELSE {Raise("NotFittedError")}

\* predict_except without the except clause: the exception leaves the method
predict_except_propagates(outcome) == outcome

\* except Exception: return "Low", 0.1
predict_except(outcome) == IF outcome.raised THEN Return(SAFE_DEFAULT) ELSE outcome

\* round(x, 3) of a confidence
round3(x) == ((x + 5) \div 10) * 10

\* classify_column_ml with the larger confidence reported as the final one
classify_column_ml_max_confidence(column_name, name_pred, data_pred) ==
    LET name_wins == risk_hierarchy[name_pred.risk] >= risk_hierarchy[data_pred.risk]
        final == IF name_wins THEN name_pred ELSE data_pred
    IN  [column |-> column_name,
         ml_name_risk |-> name_pred.risk,
         ml_name_confidence |-> round3(name_pred.confidence),
         ml_data_risk |-> data_pred.risk,
         ml_data_confidence |-> round3(data_pred.confidence),
         ml_final_risk |-> final.risk,
         ml_final_confidence |-> round3(Max(name_pred.confidence, data_pred.confidence)),
         ml_primary_factor |-> IF name_wins THEN "column_name" ELSE "data_pattern"]

\* classify_column_ml, after the two predictions
ML_SAMPLE_SIZE == 100
classify_column_ml(column_name, name_pred, data_pred) ==
    LET name_wins == risk_hierarchy[name_pred.risk] >= risk_hierarchy[data_pred.risk]
        final == IF name_wins THEN name_pred ELSE data_pred
    IN  [column |-> column_name,
         ml_name_risk |-> name_pred.risk,
         ml_name_confidence |-> round3(name_pred.confidence),
         ml_data_risk |-> data_pred.risk,
         ml_data_confidence |-> round3(data_pred.confidence),
         ml_final_risk |-> final.risk,
         ml_final_confidence |-> round3(final.confidence),
         ml_primary_factor |-> IF name_wins THEN "column_name" ELSE "data_pattern"]

\* hybrid_decision with the rule-based verdict always taken as the final one
hybrid_decision_rule_only(rule_result, ml_result) ==
    LET rule_risk_score == risk_hierarchy[rule_result.final_risk]
        ml_risk_score == risk_hierarchy[ml_result.ml_final_risk]
    IN  IF ml_risk_score > rule_risk_score
        THEN [final_risk |-> rule_result.final_risk, method |-> "ml_enhanced"]
        ELSE IF rule_risk_score > ml_risk_score
        THEN [final_risk |-> rule_result.final_risk, method |-> "rule_based"]
        ELSE [final_risk |-> rule_result.final_risk, method |-> "consensus"]

\* hybrid_decision with `>=` for `>` in the second comparison
hybrid_decision_ge(rule_result, ml_result) ==
    LET rule_risk_score == risk_hierarchy[rule_result.final_risk]
        ml_risk_score == risk_hierarchy[ml_result.ml_final_risk]
    IN  IF ml_risk_score > rule_risk_score
        THEN [final_risk |-> ml_result.ml_final_risk, method |-> "ml_enhanced"]
        ELSE IF rule_risk_score >= ml_risk_score
        THEN [final_risk |-> rule_result.final_risk, method |-> "rule_based"]
        ELSE [final_risk |-> rule_result.final_risk, method |-> "consensus"]

\* hybrid_classify_series, lines 302-316: the fused verdict and its method tag
hybrid_decision(rule_result, ml_result) ==
    LET rule_risk_score == risk_hierarchy[rule_result.final_risk]
        ml_risk_score == risk_hierarchy[ml_result.ml_final_risk]
    IN  IF ml_risk_score > rule_risk_score
        THEN [final_risk |-> ml_result.ml_final_risk, method |-> "ml_enhanced"]
        ELSE IF rule_risk_score > ml_risk_score
        THEN [final_risk |-> rule_result.final_risk, method |-> "rule_based"]
        ELSE [final_risk |-> rule_result.final_risk, method |-> "consensus"]

\* hybrid_classify_series, after the two classifications: {**rule_result,
\* **ml_result, ...}
hybrid_classify_series(rule_result, ml_result) ==
    LET final_risk == hybrid_decision(rule_result, ml_result).final_risk
        method == hybrid_decision(rule_result, ml_result).method
    IN  [column |-> ml_result.column,
         name_hint_risk |-> rule_result.name_hint_risk,
         value_sample_risk |-> rule_result.value_sample_risk,
         final_risk |-> rule_result.final_risk,
         ml_name_risk |-> ml_result.ml_name_risk,
         ml_name_confidence |-> ml_result.ml_name_confidence,
         ml_data_risk |-> ml_result.ml_data_risk,
         ml_data_confidence |-> ml_result.ml_data_confidence,
         ml_final_risk |-> ml_result.ml_final_risk,
         ml_final_confidence |-> ml_result.ml_final_confidence,
         ml_primary_factor |-> ml_result.ml_primary_factor,
         hybrid_final_risk |-> final_risk,
         hybrid_method |-> method,
         confidence_score |-> ml_result.ml_final_confidence]

(***************************************************************************)
(* Example columns and datasets                                            *)
(***************************************************************************)
Col(name, series) == [name |-> name, series |-> series]
CUST001 == <<"C","U","S","T","0","0","1">>
CUST002 == <<"C","U","S","T","0","0","2">>
Columns ==
    { Col(<<"i","d">>, <<Val(CUST001), Val(CUST002)>>),
      Col(<<"s","s","n">>, <<Val(CUST001), NA>>),
      Col(<<"e","m","a","i","l">>, <<Val(<<"a","@","b",".","c","o">>), Val(CUST001)>>),
      Col(<<"d","o","b">>, <<NA, Val(<<"1","9","9","0","-","0","1","-","0","1">>)>>),
      Col(<<"n","o","t","e","s">>, <<NA, NA>>),
      Col(<<"p","a","y">>,
          <<Val(<<"4","5","3","9","1","4","8","8","0","3","4","3","6","4","6","7">>), NA>>),
      Col(<<"n">>,
          <<Val(<<"sup2","sup2","sup2","sup2","sup2","sup2","sup2","sup2","sup2">>),
            Val(CUST001)>>) }

\* the DataFrames validate_csv_file hands on: at least one column, names distinct
Datasets ==
    UNION { { df \in [1..k -> Columns] :
                \A a, b \in 1..k : a # b => df[a].name # df[b].name } : k \in 1..MaxCols }
SmallDatasets == { df \in Datasets : Len(df) = 1 /\ df[1].name \in {<<"i","d">>, <<"n","o","t","e","s">>} }

(***************************************************************************)
(* session_manager.py: the data classes and their conversions.  A dataclass*)
(* instance is a record with the field dataclass, the dict asdict makes of *)
(* it is the record without that field.  A time is a number of hours, and  *)
(* isoformat() of a time is its text.  None in a text field is "None".     *)
(***************************************************************************)
None == [none |-> TRUE]
NoFile == [exists |-> FALSE]
isoformat(t) == [iso |-> t]
\* datetime.fromisoformat
fromisoformat(s) == IF "iso" \in DOMAIN s THEN Return(s.iso) ELSE Raise("ValueError")
Min(a, b) == IF a <= b THEN a ELSE b

MODULES ==
    {"risk_assessment", "policy_generator", "compliance_checklist", "enhanced_risk_scoring",
     "rrosh_decision", "breach_record_book", "dsar_factory", "cross_border_assessment",
     "quebec_pack", "processing_inventory"}

ModuleProgress ==
    [dataclass |-> "ModuleProgress", completed |-> FALSE, completion_date |-> None,
     completion_percentage |-> 0, last_updated |-> None]
mark_completed(self, t) ==
    [self EXCEPT !.completed = TRUE,
                 !.completion_date = isoformat(t),
                 !.completion_percentage = 100,
                 !.last_updated = isoformat(t)]
update_progress(self, percentage, t) ==
    LET updated == [self EXCEPT !.completion_percentage = Min(100, Max(0, percentage)),
                                !.last_updated = isoformat(t)]
    IN  IF updated.completion_percentage >= 100 THEN mark_completed(updated, t) ELSE updated

\* of the fields of the module data: one text and one number of
\* RiskAssessmentData, one text of PolicyGeneratorData, one number of
\* ComplianceChecklistData
RiskAssessmentData ==
    [dataclass |-> "RiskAssessmentData", dataset_name |-> "None", total_rows |-> 0]
PolicyGeneratorData ==
    [dataclass |-> "PolicyGeneratorData", company_name |-> ""]
ComplianceChecklistData ==
    [dataclass |-> "ComplianceChecklistData", score |-> 0]
\* the objects __post_init__ makes where the lazy import succeeds
BreachRecordBook == [object |-> "BreachRecordBook"]
ProcessingInventory == [object |-> "ProcessingInventory"]
DefaultProgress == [name \in MODULES |-> ModuleProgress]
\* SessionData(...) with __post_init__; imports says whether the lazy imports
\* of lines 141 and 148 succeed
SessionData(session_id, created_at, last_accessed, risk_assessment, policy_generator, compliance_checklist, progress, imports) ==
    [dataclass |-> "SessionData",
     session_id |-> session_id,
     created_at |-> created_at,
     last_accessed |-> last_accessed,
     risk_assessment |-> risk_assessment,
     policy_generator |-> policy_generator,
     compliance_checklist |-> compliance_checklist,
     breach_record_book |-> IF imports THEN BreachRecordBook ELSE None,
     processing_inventory |-> IF imports THEN ProcessingInventory ELSE None,
     progress |-> progress,
     session_timeout_hours |-> 24]
is_expired(self, t) ==
    LET last_access == fromisoformat(self.last_accessed) IN
    IF last_access.raised THEN last_access
    ELSE Return(t > last_access.value + self.session_timeout_hours)
update_last_accessed(self, t) == [self EXCEPT !.last_accessed = isoformat(t)]

\* dataclasses.asdict: TypeError unless obj is a dataclass instance; nested
\* dataclass instances and the values of a dict are converted with it
is_dataclass(obj) == "dataclass" \in DOMAIN obj
fields_of(obj) == [f \in DOMAIN obj \ {"dataclass"} |-> obj[f]]
asdict(obj) ==
    IF ~is_dataclass(obj) THEN Raise("TypeError")
    ELSE IF obj.dataclass # "SessionData" THEN Return(fields_of(obj))
    ELSE Return([fields_of(obj) EXCEPT
                    !.risk_assessment = fields_of(@),
                    !.policy_generator = fields_of(@),
                    !.compliance_checklist = fields_of(@),
                    !.progress = [name \in DOMAIN @ |-> fields_of(@[name])]])
\* lines 384-394: asdict(session), then asdict of each value of the progress
\* dict asdict made, where that dict is not empty
_session_data_to_dict(session) ==
    LET result == asdict(session) IN
    IF result.raised \/ DOMAIN result.value.progress = {} THEN result
    ELSE LET converted == [name \in DOMAIN result.value.progress |->
                               asdict(result.value.progress[name])]
         IN  IF \E name \in DOMAIN converted : converted[name].raised
             THEN Raise("TypeError")
             ELSE Return([result.value EXCEPT
                              !.progress = [name \in DOMAIN converted |-> converted[name].value]])

_dict_to_module_progress(data) ==
    [dataclass |-> "ModuleProgress",
     completed |-> get(data, "completed", FALSE),
     completion_date |-> get(data, "completion_date", None),
     completion_percentage |-> get(data, "completion_percentage", 0),
     last_updated |-> get(data, "last_updated", None)]
_dict_to_risk_assessment(data) ==
    [dataclass |-> "RiskAssessmentData",
     dataset_name |-> get(data, "dataset_name", "None"),
     total_rows |-> get(data, "total_rows", 0)]
_dict_to_policy_generator(data) ==
    [dataclass |-> "PolicyGeneratorData", company_name |-> get(data, "company_name", "")]
_dict_to_compliance_checklist(data) ==
    [dataclass |-> "ComplianceChecklistData", score |-> get(data, "score", 0)]
EmptyDict == [name \in {} |-> None]
\* lines 396-416; KeyError where data lacks one of the three subscripted keys
_dict_to_session_data(data, imports) ==
    IF ~({"session_id", "created_at", "last_accessed"} \subseteq DOMAIN data)
    THEN Raise("KeyError")
    ELSE LET progress_data == get(data, "progress", EmptyDict) IN
         Return(SessionData(
             data.session_id, data.created_at, data.last_accessed,
             _dict_to_risk_assessment(get(data, "risk_assessment", EmptyDict)),
             _dict_to_policy_generator(get(data, "policy_generator", EmptyDict)),
             _dict_to_compliance_checklist(get(data, "compliance_checklist", EmptyDict)),
             [name \in DOMAIN progress_data |-> _dict_to_module_progress(progress_data[name])],
             imports))

\* json: a text is a JSON document of a value, or no JSON at all.  dumps
\* raises TypeError on an object that is no dict, list, text or number.
NotJson == [garbage |-> TRUE]
serializable(session_dict) ==
    /\ session_dict.breach_record_book = None
    /\ session_dict.processing_inventory = None
json_dumps(value) == [json |-> value]
json_loads(text) == IF "json" \in DOMAIN text THEN Return(text.json) ELSE Raise("JSONDecodeError")

(***************************************************************************)
(* session_manager.py: the SessionManager over its storage directory, and  *)
(* the callers of session_ui_helpers.py and app.py                         *)
(***************************************************************************)
\* secrets.token_urlsafe(32): a token no session had before
_generate_session_id(n) == IF n = 0 THEN "token1" ELSE IF n = 1 THEN "token2" ELSE "token3"
Tokens == {_generate_session_id(n) : n \in 0..(MaxSessions - 1)}
SessionIds == {"found"} \cup Tokens

\* _save_session: the file is opened for writing once the dict is made, and
\* json.dump writes it piece by piece until it meets an object it cannot write
_save_session(session, storage) ==
    LET session_dict == _session_data_to_dict(session) IN
    IF session_dict.raised
    THEN [result |-> FALSE, storage_dir |-> storage]
    ELSE IF ~serializable(session_dict.value)
    THEN [result |-> FALSE,
          storage_dir |-> [storage EXCEPT ![session.session_id] = NotJson]]
    ELSE [result |-> TRUE,
          storage_dir |-> [storage EXCEPT ![session.session_id] = json_dumps(session_dict.value)]]
save_session(session, storage, t) == _save_session(update_last_accessed(session, t), storage)
delete_session(session_id, storage) == [storage EXCEPT ![session_id] = NoFile]

\* json.load and _dict_to_session_data of a file, and is_expired of the result
load_session(file, imports) ==
    LET data == json_loads(file) IN
    IF data.raised THEN data ELSE _dict_to_session_data(data.value, imports)
load_expired(file, t, imports) ==
    LET session_data == load_session(file, imports) IN
    IF session_data.raised THEN session_data ELSE is_expired(session_data.value, t)
\* lines 330-348; max_sessions is 1000, more than the directory ever holds here
_cleanup_old_sessions(storage, t, imports) ==
    [id \in DOMAIN storage |->
        IF storage[id] = NoFile THEN NoFile
        ELSE LET expired == load_expired(storage[id], t, imports) IN
             IF expired.raised \/ expired.value THEN NoFile ELSE storage[id]]

create_session(n, storage, t, imports) ==
    LET session == SessionData(_generate_session_id(n), isoformat(t), isoformat(t),
                               RiskAssessmentData, PolicyGeneratorData,
                               ComplianceChecklistData, DefaultProgress, imports)
    IN  [session |-> session,
         storage_dir |-> _cleanup_old_sessions(_save_session(session, storage).storage_dir,
                                               t, imports)]

get_session(session_id, storage, t, imports) ==
    IF session_id = "" \/ storage[session_id] = NoFile
    THEN [session |-> None, storage_dir |-> storage]
    ELSE LET expired == load_expired(storage[session_id], t, imports) IN
         IF expired.raised
         THEN [session |-> None, storage_dir |-> [storage EXCEPT ![session_id] = NoFile]]
         ELSE IF expired.value
         THEN [session |-> None, storage_dir |-> delete_session(session_id, storage)]
         ELSE LET session_data ==
                      update_last_accessed(load_session(storage[session_id], imports).value, t)
              IN  [session |-> session_data,
                   storage_dir |-> _save_session(session_data, storage).storage_dir]

export_session(session, t) ==
    LET session_dict == _session_data_to_dict(session) IN
    IF session_dict.raised THEN session_dict
    ELSE Return(json_dumps(
             [exported_at |-> isoformat(t),
              privacy_guardian_version |-> "1.0",
              data |-> [risk_assessment |-> session_dict.value.risk_assessment,
                        policy_generator |-> session_dict.value.policy_generator,
                        compliance_checklist |-> session_dict.value.compliance_checklist,
                        progress |-> session_dict.value.progress]]))

\* `key in data and data[key]`
present(data, key) == key \in DOMAIN data /\ DOMAIN data[key] # {}
\* import_session; the result says whether create_session was reached
import_session(json_data, n, storage, t, imports) ==
    LET import_data == json_loads(json_data)
        stays(outcome) == [result |-> outcome, created |-> FALSE, storage_dir |-> storage]
    IN  IF import_data.raised THEN stays(Return(None))
        ELSE IF "scalar" \in DOMAIN import_data.value THEN stays(Raise("TypeError"))
        ELSE IF "data" \notin DOMAIN import_data.value THEN stays(Return(None))
        ELSE LET data == import_data.value.data
                 made == create_session(n, storage, t, imports)
                 imported ==
                     [made.session EXCEPT
                         !.risk_assessment =
                             IF present(data, "risk_assessment")
                             THEN _dict_to_risk_assessment(data.risk_assessment) ELSE @,
                         !.policy_generator =
                             IF present(data, "policy_generator")
                             THEN _dict_to_policy_generator(data.policy_generator) ELSE @,
                         !.compliance_checklist =
                             IF present(data, "compliance_checklist")
                             THEN _dict_to_compliance_checklist(data.compliance_checklist) ELSE @,
                         !.progress =
                             IF present(data, "progress")
                             THEN [name \in DOMAIN data.progress |->
                                       _dict_to_module_progress(data.progress[name])]
                             ELSE @]
                 saved == save_session(imported, made.storage_dir, t)
             IN  [result |-> Return(update_last_accessed(imported, t)), created |-> TRUE,
                  storage_dir |-> saved.storage_dir]

\* session_ui_helpers.py: the change of session the two helpers make before
\* they save it
update_module_progress(session, module_name, percentage, t) ==
    IF module_name \in DOMAIN session.progress
    THEN [session EXCEPT !.progress[module_name] = update_progress(@, percentage, t)]
    ELSE session
mark_module_completed(session, module_name, t) ==
    IF module_name \in DOMAIN session.progress
    THEN [session EXCEPT !.progress[module_name] = mark_completed(@, t)]
    ELSE session

(***************************************************************************)
(* The process: the shared _ml_classifier and the request handlers         *)
(***************************************************************************)
VARIABLES
    is_trained,     \* _ml_classifier.is_trained
    fitted,         \* the estimators of _ml_classifier a fit has completed on
    train_count,    \* executions of train started so far
    train_failures, \* executions of train that returned False so far
    workers,        \* the threads that serve requests
    uploads,        \* the datasets clients send
    requests,       \* requests started so far
    pc,             \* per worker: where it stands
    frame,          \* per worker: the locals of the request it serves
    response,       \* per worker: what its last request returned
    args,           \* a function applied to drawn inputs: the inputs
    ret,            \* ... and its result
    now,            \* datetime.now(), in hours
    storage_dir,    \* the session files of the storage directory, by session id
    user_session,   \* the SessionData the caller holds
    imports,        \* whether the lazy imports of SessionData succeed
    tokens          \* session ids generated so far

vars == <<is_trained, fitted, train_count, train_failures, workers, uploads, requests, pc, frame,
          response, args, ret, now, storage_dir, user_session, imports, tokens>>
session_vars == <<now, storage_dir, user_session, imports, tokens>>

Workers == {"w1", "w2"}
NoPrediction == Return([risk |-> "Low", confidence |-> 0])
NoFrame ==
    [route |-> "none", df |-> <<>>, method |-> "none", c |-> 0, results |-> <<>>,
     name_pred |-> NoPrediction, data_pred |-> NoPrediction, ret_to |-> "none",
     train_result |-> FALSE, call_trains |-> 0, call_after_failure |-> FALSE,
     pred_exc |-> FALSE, stat_failed |-> FALSE]
NoResponse == [route |-> "none"]

IdleProcess ==
    /\ is_trained = FALSE
    /\ fitted = {}
    /\ train_count = 0
    /\ train_failures = 0
    /\ requests = 0
    /\ pc = [w \in Workers |-> "idle"]
    /\ frame = [w \in Workers |-> NoFrame]
    /\ response = [w \in Workers |-> NoResponse]

\* no session in use
InitProcess ==
    /\ IdleProcess
    /\ now = 0
    /\ storage_dir = [id \in SessionIds |-> NoFile]
    /\ user_session = None
    /\ imports = TRUE
    /\ tokens = 0

NoCall ==
    /\ args = [fn |-> "none"]
    /\ ret = [done |-> FALSE]

\* one request at a time
Init ==
    /\ InitProcess
    /\ workers = {"w1"}
    /\ uploads = Datasets
    /\ NoCall

\* the threaded server: requests served concurrently
InitConc ==
    /\ InitProcess
    /\ workers = Workers
    /\ uploads = SmallDatasets
    /\ NoCall

\* the response of the /risk route, lines 220-260
risk_response(df, method, results, summary, failed, excepted) ==
    [route |-> "risk", raised |-> FALSE, df |-> df, except_branch |-> excepted,
     method_name |-> IF method = "hybrid" THEN "Hybrid (ML + Rules)" ELSE "Rule-based Only",
     results |-> results, summary |-> summary, stat_failed |-> failed]

\* the except branch of the /risk route, lines 212-215
risk_fallback(df, failed) ==
    risk_response(df, "hybrid", classify_dataframe(df),
                  summarize_risk_levels(classify_dataframe(df)), failed, TRUE)

\* POST /risk, lines 171-219: rule-based classification is done in one step,
\* hybrid classification enters classify_dataframe_hybrid
risk(w) ==
    /\ UNCHANGED session_vars
    /\ pc[w] = "idle"
    /\ requests < MaxRequests
    /\ requests' = requests + 1
    /\ \E df \in uploads, method \in {"hybrid", "rule_based"} :
        IF method = "hybrid"
        THEN /\ pc' = [pc EXCEPT ![w] = "hybrid_341"]
             /\ frame' = [frame EXCEPT ![w] =
                    [NoFrame EXCEPT !.route = "risk", !.df = df, !.method = method, !.c = 1]]
             /\ UNCHANGED response
        ELSE /\ response' = [response EXCEPT ![w] =
                    risk_response(df, method, classify_dataframe(df),
                                  summarize_risk_levels(classify_dataframe(df)), FALSE, FALSE)]
             /\ frame' = [frame EXCEPT ![w] = NoFrame]
             /\ pc' = [pc EXCEPT ![w] = "done"]
    /\ UNCHANGED <<is_trained, fitted, train_count, train_failures, workers, uploads, args, ret>>

\* POST /enhanced_risk, lines 418-469
enhanced_risk(w) ==
    /\ UNCHANGED session_vars
    /\ pc[w] = "idle"
    /\ requests < MaxRequests
    /\ requests' = requests + 1
    /\ \E df \in uploads :
        LET r == classify_dataframe_enhanced(df) IN
        response' = [response EXCEPT ![w] =
            IF r.raised
            THEN [route |-> "enhanced_risk", raised |-> TRUE, df |-> df, exc |-> r.exc]
            ELSE [route |-> "enhanced_risk", raised |-> FALSE, df |-> df, results |-> r.value]]
    /\ pc' = [pc EXCEPT ![w] = "done"]
    /\ UNCHANGED <<is_trained, fitted, train_count, train_failures, workers, uploads, frame, args, ret>>

\* the loop of classify_dataframe_hybrid, line 341, and the summary of the
\* /risk route when it ends, lines 207-211
classify_dataframe_hybrid(w) ==
    /\ UNCHANGED session_vars
    /\ pc[w] = "hybrid_341"
    /\ IF frame[w].c > Len(frame[w].df)
       THEN /\ response' = [response EXCEPT ![w] =
                  risk_response(frame[w].df, frame[w].method, frame[w].results,
                      [level \in RISK_LEVELS |->
                          CountRisk(frame[w].results, "hybrid_final_risk", level)],
                      frame[w].stat_failed, FALSE)]
            /\ pc' = [pc EXCEPT ![w] = "done"]
            /\ frame' = [frame EXCEPT ![w] = NoFrame]
       ELSE /\ pc' = [pc EXCEPT ![w] = "predict_133"]
            /\ frame' = [frame EXCEPT ![w].call_trains = 0, ![w].pred_exc = FALSE]
            /\ UNCHANGED response
    /\ UNCHANGED <<is_trained, fitted, train_count, train_failures, workers, uploads, requests, args, ret>>

\* `if not self.is_trained: self.train()` of the two predict methods, lines
\* 133-134 and 155-156; after is where the caller goes on
train_if_needed(w, after) ==
    IF ~is_trained
    THEN /\ pc' = [pc EXCEPT ![w] = "train_115"]
         /\ frame' = [frame EXCEPT ![w].ret_to = after, ![w].call_trains = 1,
                                   ![w].call_after_failure = (train_failures > 0),
                                   ![w].pred_exc = FALSE]
         /\ train_count' = train_count + 1
    ELSE /\ pc' = [pc EXCEPT ![w] = after]
         /\ frame' = [frame EXCEPT ![w].call_trains = 0,
                                   ![w].call_after_failure = (train_failures > 0),
                                   ![w].pred_exc = FALSE]
         /\ UNCHANGED train_count

\* MLRiskClassifier.train, one statement at a time
train(w) ==
    /\ UNCHANGED session_vars
    /\ pc[w] \in TrainLines
    /\ LET o == train_line(pc[w], fitted, is_trained) IN
        /\ fitted' = o.fitted
        /\ is_trained' = o.is_trained
        /\ pc' = [pc EXCEPT ![w] = IF o.next = "return" THEN frame[w].ret_to ELSE o.next]
        /\ train_failures' = IF o.next = "return" /\ ~o.result THEN train_failures + 1
                             ELSE train_failures
        /\ frame' = [frame EXCEPT
               ![w].train_result = o.result,
               ![w].stat_failed = @ \/ (o.next = "return" /\ ~o.result)]
    /\ UNCHANGED <<train_count, workers, uploads, requests, response, args, ret>>

\* a prediction returned outcome r to classify_column_ml; an exception leaves
\* classify_dataframe_hybrid and reaches the except branch of the /risk route
predicted(w, field, o, r, after) ==
    IF r.raised
    THEN /\ response' = [response EXCEPT ![w] = risk_fallback(frame[w].df, TRUE)]
         /\ pc' = [pc EXCEPT ![w] = "done"]
         /\ frame' = [frame EXCEPT ![w] = NoFrame]
    ELSE /\ pc' = [pc EXCEPT ![w] = after]
         /\ frame' = [frame EXCEPT ![w][field] = r, ![w].pred_exc = o.raised,
                                   ![w].stat_failed = @ \/ o.raised]
         /\ UNCHANGED response

\* MLRiskClassifier.predict_column_risk, lines 131-151
predict_column_risk(w) ==
    /\ UNCHANGED session_vars
    /\ \/ /\ pc[w] = "predict_133"
          /\ train_if_needed(w, "predict_136")
          /\ UNCHANGED response
       \/ /\ pc[w] = "predict_136"
          /\ \E o \in column_try(fitted) :
                predicted(w, "name_pred", o, predict_except(o), "predict_155")
          /\ UNCHANGED train_count
    /\ UNCHANGED <<is_trained, fitted, train_failures, workers, uploads, requests, args, ret>>

\* MLRiskClassifier.predict_data_risk, lines 153-179, on the sample of
\* classify_column_ml, line 219
predict_data_risk(w) ==
    /\ UNCHANGED session_vars
    /\ \/ /\ pc[w] = "predict_155"
          /\ train_if_needed(w, "predict_158")
          /\ UNCHANGED response
       \/ /\ pc[w] = "predict_158"
          /\ LET df == frame[w].df
                 data_sample == sample_of(df[frame[w].c].series, ML_SAMPLE_SIZE)
             IN  \E o \in (IF data_sample = <<>> THEN {Return(SAFE_DEFAULT)}
                           ELSE data_try(fitted, sample_text(data_sample))) :
                    predicted(w, "data_pred", o, predict_except(o), "ml_226")
          /\ UNCHANGED train_count
    /\ UNCHANGED <<is_trained, fitted, train_failures, workers, uploads, requests, args, ret>>

\* the rest of classify_column_ml (lines 225-246) and of hybrid_classify_series
\* (lines 297, 302-327) for the column, and results.append (line 343)
hybrid_column(w) ==
    /\ UNCHANGED session_vars
    /\ pc[w] = "ml_226"
    /\ LET col == frame[w].df[frame[w].c]
           rule_result == classify_series(col.name, col.series)
           ml_result == classify_column_ml(col.name, frame[w].name_pred.value,
                                           frame[w].data_pred.value)
       IN  frame' = [frame EXCEPT
               ![w].results = Append(@, hybrid_classify_series(rule_result, ml_result)),
               ![w].c = @ + 1]
    /\ pc' = [pc EXCEPT ![w] = "hybrid_341"]
    /\ UNCHANGED <<is_trained, fitted, train_count, train_failures, workers, uploads, requests,
                   response, args, ret>>

\* what a client sees of a classification: the pass it asked for and the
\* verdicts, or the exception, it got
PassOf(resp) ==
    [route |-> resp.route,
     method |-> IF resp.route = "risk" THEN resp.method_name ELSE "Enhanced"]
OutcomeOf(resp) ==
    IF resp.raised THEN Raise(resp.exc) ELSE Return(resp.results)

\* the handler returns: the response goes to the client; where one dataset is
\* classified again and again, ret keeps the outcome of the first pass of each
\* kind
reply(w) ==
    /\ UNCHANGED session_vars
    /\ pc[w] = "done"
    /\ pc' = [pc EXCEPT ![w] = "idle"]
    /\ response' = [response EXCEPT ![w] = NoResponse]
    /\ ret' = IF args.fn = "classify_again"
                 /\ \A f \in ret.first : f.pass # PassOf(response[w])
              THEN [ret EXCEPT !.first =
                        @ \cup {[pass |-> PassOf(response[w]), outcome |-> OutcomeOf(response[w])]}]
              ELSE ret
    /\ UNCHANGED <<is_trained, fitted, train_count, train_failures, workers, uploads, requests, frame,
                   args>>

Next ==
    \/ \E w \in workers : risk(w)
    \/ \E w \in workers : enhanced_risk(w)
    \/ \E w \in workers : classify_dataframe_hybrid(w)
    \/ \E w \in workers : predict_column_risk(w)
    \/ \E w \in workers : train(w)
    \/ \E w \in workers : predict_data_risk(w)
    \/ \E w \in workers : hybrid_column(w)
    \/ \E w \in workers : reply(w)

Spec == Init /\ [][Next]_vars
SpecConc == InitConc /\ [][Next]_vars

\* one dataset, classified by every request of the process
RepeatInit ==
    /\ InitProcess
    /\ workers = {"w1"}
    /\ uploads \in {{df} : df \in Datasets}
    /\ args = [fn |-> "classify_again"]
    /\ ret = [done |-> FALSE, first |-> {}]
RepeatSpec == RepeatInit /\ [][Next]_vars

(***************************************************************************)
(* The fusion of hybrid_classify_series as a function of a column and of   *)
(* the two answers of the statistical classifier                           *)
(***************************************************************************)
FusionInit ==
    /\ InitProcess
    /\ workers = {}
    /\ uploads = {}
    /\ args \in [fn : {"hybrid_classify_series"}, col : Columns,
                 name_pred : Predictions \cup {SAFE_DEFAULT},
                 data_pred : Predictions \cup {SAFE_DEFAULT}]
    /\ ret = [done |-> FALSE]

hybrid_classify_series_call ==
    /\ UNCHANGED session_vars
    /\ args.fn = "hybrid_classify_series"
    /\ ~ret.done
    /\ LET rule_result == classify_series(args.col.name, args.col.series)
           ml_result == classify_column_ml(args.col.name, args.name_pred, args.data_pred)
       IN  ret' = [done |-> TRUE, rule |-> rule_result, ml |-> ml_result,
                   value |-> hybrid_classify_series(rule_result, ml_result)]
    /\ UNCHANGED <<is_trained, fitted, train_count, train_failures, workers, uploads,
                   requests, pc, frame, response, args>>

FusionNext == hybrid_classify_series_call
FusionSpec == FusionInit /\ [][FusionNext]_vars

(***************************************************************************)
(* The rule-based functions applied to drawn arguments                     *)
(***************************************************************************)
MaxDigits == 16     \* digits of the longest number string drawn
MaxVerdicts == 3    \* verdicts of the longest list drawn

replace(s, p, ch) == [s EXCEPT ![p] = ch]

\* 4539148803436467, a card number that passes the check, and three digits more
LuhnBase == <<"4","5","3","9","1","4","8","8","0","3","4","3","6","4","6","7","1","2","3">>
\* written as cards are: 4539-1488 03436467
grouped(s) == SubSeq(s, 1, 4) \o <<"-">> \o SubSeq(s, 5, 8) \o <<" ">> \o SubSeq(s, 9, Len(s))
Sup2s(n) == [k \in 1..n |-> "sup2"]

\* number strings of 11 digits and more, with every last digit
LuhnDigitStrings ==
    { replace(SubSeq(LuhnBase, 1, n), n, d) : n \in 11..MaxDigits, d \in AsciiDigits }
LuhnOtherStrings ==
    { grouped(s) : s \in LuhnDigitStrings }
      \cup { <<>>, Sup2s(1), Sup2s(12), replace(SubSeq(LuhnBase, 1, 12), 3, "sup2"),
             <<"a","b","c">> }

\* 046454286, a SIN that passes the check
SinBase == <<"0","4","6","4","5","4","2","8","6">>
SinDigitStrings ==
    { replace(SinBase, p, d) : p \in 1..9, d \in AsciiDigits }
      \cup { SubSeq(SinBase, 1, 8), SinBase \o <<"0">>, SinBase \o <<"6">> }
SinOtherStrings ==
    { SubSeq(s, 1, 3) \o <<"-">> \o SubSeq(s, 4, 6) \o <<" ">> \o SubSeq(s, 7, Len(s)) :
          s \in SinDigitStrings }
      \cup { <<>>, Sup2s(1), Sup2s(9), replace(SinBase, 3, "sup2"), <<"a","b","c">> }

\* str.upper() on the letters of a name, and str.capitalize() on its first
UpperOf(ch) == IF ch \in LowerLetters THEN CHOOSE u \in UpperLetters : LowerOf[u] = ch ELSE ch
upper(s) == [k \in 1..Len(s) |-> UpperOf(s[k])]
capitalize(s) == [k \in 1..Len(s) |-> IF k = 1 THEN UpperOf(s[k]) ELSE s[k]]
Casings(s) == {s, upper(s), capitalize(s)}

\* column names: a keyword in some casing inside a name, two keywords of
\* different sets in one name, and names without any keyword; parts are the
\* keywords the name is built from
NamePrefixes == { <<>>, <<"x","_">> }
NameSuffixes == { <<>>, <<"_","1">> }
PlainNames == { <<>>, <<"i","d">>, <<"n","o","t","e","s">>, <<"p","a","y">>, <<"n">>,
                <<"Q","t","y">>, <<"x","_","1">> }
CasedKeywords ==
    UNION { {[text |-> t, of |-> h] : t \in Casings(h)} :
                h \in HIGH_NAME_HINTS \cup MEDIUM_NAME_HINTS }
KeywordCalls ==
    { [fn |-> "_column_risk_by_name", col |-> pre \o c.text \o post, parts |-> {c.of}] :
          pre \in NamePrefixes, post \in NameSuffixes, c \in CasedKeywords }
TwoKeywordCalls ==
    { [fn |-> "_column_risk_by_name", col |-> a \o <<"_">> \o b, parts |-> {a, b}] :
          a \in {<<"e","m","a","i","l">>, <<"i","p">>, <<"s","s","n">>, <<"c","a","r","d">>},
          b \in {<<"s","s","n">>, <<"c","c">>, <<"d","o","b">>, <<"z","i","p">>} }
PlainNameCalls ==
    { [fn |-> "_column_risk_by_name", col |-> n, parts |-> {}] : n \in PlainNames }


\* series: values of every tier in several orders, missing values, and
\* columns longer than the sample
A_B_CO == <<"a","@","b",".","c","o">>
DATE_1990 == <<"1","9","9","0","-","0","1","-","0","1">>
SIN_SHAPED == <<"1","2","3","-","4","5","6","-","7","8","9">>
CARD_4539 == SubSeq(LuhnBase, 1, 16)
LongSeries(n, last) == [k \in 1..n |-> IF k = n THEN Val(last) ELSE Val(CUST001)]
SeriesExamples ==
    { <<>>,
      <<NA, NA>>,
      <<Val(CUST001), Val(CUST002)>>,
      <<Val(CUST001), NA>>,
      <<Val(A_B_CO), Val(CUST001)>>,
      <<NA, Val(DATE_1990)>>,
      <<Val(DATE_1990), Val(A_B_CO), Val(CUST001)>>,
      <<Val(A_B_CO), Val(DATE_1990)>>,
      <<Val(CUST001), Val(DATE_1990), Val(CUST002)>>,
      <<Val(SIN_SHAPED)>>,
      <<Val(CARD_4539), NA>>,
      <<Val(SinBase)>>,
      <<Val(CUST001), Val(grouped(CARD_4539))>>,
      <<Val(replace(CARD_4539, 16, "8")), Val(replace(SinBase, 9, "5"))>>,
      LongSeries(SAMPLE_SIZE, A_B_CO),
      LongSeries(SAMPLE_SIZE + 1, A_B_CO),
      <<NA>> \o LongSeries(SAMPLE_SIZE, A_B_CO),
      LongSeries(SAMPLE_SIZE + 1, DATE_1990),
      LongSeries(SAMPLE_SIZE + 1, CARD_4539),
      <<NA>> \o LongSeries(SAMPLE_SIZE, SinBase),
      <<Val(Sup2s(9)), Val(CARD_4539)>>,
      <<Val(CARD_4539), Val(Sup2s(9))>>,
      <<Val(Sup2s(1)), Val(<<"sup2">> \o SinBase)>> }
SeriesNames == { <<"i","d">>, <<"s","s","n">>, <<"e","m","a","i","l">>, <<"n","o","t","e","s">>,
                 <<"C","u","s","t","_","S","S","N">> }
SeriesCalls ==
    { [fn |-> "classify_series", name |-> n, series |-> s] : n \in SeriesNames, s \in SeriesExamples }

\* values: for each pattern values it matches, values that match a High and a
\* Medium pattern, and values that match none; shapes names the patterns a
\* value is written to match
ValueExamples ==
    { [text |-> <<"a","@","b",".","c","o">>, shapes |-> {"email"}],
      [text |-> <<"1","2","3","-","4","5","6","-","7","8","9">>, shapes |-> {"phone", "sin"}],
      [text |-> <<"1","2","3","4","5","6","7","8","9">>, shapes |-> {"phone", "sin"}],
      [text |-> <<"1","2","3"," ","4","5","6"," ","7","8","9">>, shapes |-> {"phone", "sin"}],
      [text |-> <<"4","5","3","9","1","4","8","8","0","3","4","3","6","4","6","7">>, shapes |-> {"card", "phone"}],
      [text |-> <<"4","5","3","9","-","1","4","8","8","-","0","3","4","3","-","6","4","6","7">>, shapes |-> {"card", "phone"}],
      [text |-> <<"+","1"," ","5","5","5"," ","1","2","3"," ","4","5","6","7">>, shapes |-> {"phone"}],
      [text |-> <<"(","5","5","5",")"," ","1","2","3","-","4","5","6","7">>, shapes |-> {"phone"}],
      [text |-> <<"1","9","9","0","-","1","-","1">>, shapes |-> {"phone"}],
      [text |-> <<"1","9","9","0","-","0","1","-","0","1">>, shapes |-> {"dob", "phone"}],
      [text |-> <<"0","1","/","0","1","/","1","9","9","0">>, shapes |-> {"dob"}],
      [text |-> <<"M","5","H"," ","2","N","2">>, shapes |-> {"postal"}],
      [text |-> <<"m","5","h","2","n","2">>, shapes |-> {"postal"}],
      [text |-> <<"1","9","2",".","1","6","8",".","1",".","1">>, shapes |-> {"ip", "phone"}],
      [text |-> <<"4","0",".","7","1","2","8",",","-","7","4",".","0","0","6","0">>, shapes |-> {"latlon"}],
      [text |-> <<"1",".","5",","," ","2",".","5">>, shapes |-> {"latlon"}],
      [text |-> <<"C","U","S","T","0","0","1">>, shapes |-> {}],
      [text |-> <<"a","@","b">>, shapes |-> {}],
      [text |-> <<"a"," ","b","@","c",".","d">>, shapes |-> {}],
      [text |-> <<"1","2","3","4","5">>, shapes |-> {}],
      [text |-> <<"D","5","H"," ","2","N","2">>, shapes |-> {}],
      [text |-> <<"1","/","1","/","1","9","9","0">>, shapes |-> {}],
      [text |-> <<>>, shapes |-> {}],
      [text |-> <<"sup2","sup2","sup2","-","sup2","sup2","sup2","-","sup2","sup2","sup2">>,
       shapes |-> {}] }
PadLeft == { <<>>, <<" ">>, <<" "," ">> }
PadRight == { <<>>, <<" ">> }
CellCalls ==
    { [fn |-> "_cell_risk_by_value", v |-> Val(l \o e.text \o r), shapes |-> e.shapes] :
          l \in PadLeft, r \in PadRight, e \in ValueExamples }
      \cup { [fn |-> "_cell_risk_by_value", v |-> NA, shapes |-> {}] }
EnhancedCalls ==
    { [fn |-> "classify_series_enhanced", name |-> n, series |-> s] :
          n \in SeriesNames, s \in SeriesExamples }

\* datasets of two columns for classify_dataframe_enhanced
EnhancedColumns ==
    { Col(<<"p","a","y">>, <<Val(CUST001), Val(CARD_4539)>>),
      Col(<<"n","i","d">>, <<Val(SinBase), NA>>),
      Col(<<"s","s","n">>, <<Val(CUST001), Val(CUST002)>>),
      Col(<<"e","m","a","i","l">>, <<Val(A_B_CO)>>),
      Col(<<"d","o","b">>, <<NA, Val(DATE_1990)>>),
      Col(<<"i","d">>, <<Val(CUST001), Val(CUST002)>>),
      Col(<<"n">>, <<Val(Sup2s(9))>>) }
EnhancedFrames ==
    { df \in [1..2 -> EnhancedColumns] : df[1].name # df[2].name }
FrameCalls == { [fn |-> "classify_dataframe_enhanced", df |-> df] : df \in EnhancedFrames }

\* lists of verdicts: records of classify_series_enhanced, where the flag is
\* set on High verdicts only, and records of classify_series, without flag
VerdictName(k) == <<"c", <<"1","2","3","4","5","6","7","8","9">>[k]>>
VerdictsAt(k) ==
    { [column |-> VerdictName(k), final_risk |-> level, contains_card_or_sin |-> FALSE] :
          level \in RISK_LEVELS }
      \cup { [column |-> VerdictName(k), final_risk |-> "High", contains_card_or_sin |-> TRUE] }
      \cup { [column |-> VerdictName(k), name_hint_risk |-> level, value_sample_risk |-> "Low",
              final_risk |-> level] : level \in RISK_LEVELS }
VerdictLists ==
    UNION { { l \in [1..n -> UNION {VerdictsAt(k) : k \in 1..n}] :
                  \A k \in 1..n : l[k] \in VerdictsAt(k) } : n \in 0..MaxVerdicts }
ScoreCalls == { [fn |-> "calculate_risk_score", results |-> l] : l \in VerdictLists }
RecommendationCalls == { [fn |-> "generate_recommendations", results |-> l] : l \in VerdictLists }

\* rrosh_decision.py: the ratings of the form, and one the weights do not know
Ratings == {"Low", "Medium", "High", "Critical"}
\* weights.get(rating, 0)
rrosh_weight(rating) ==
    CASE rating = "Low" -> 0 [] rating = "Medium" -> 1 [] rating = "High" -> 2 [] OTHER -> 0
generate_rrosh_decision(sensitivity, probability) ==
    LET sens_weight == rrosh_weight(sensitivity)
        prob_weight == rrosh_weight(probability)
        total == sens_weight + prob_weight
    IN  [decision |-> IF sens_weight >= 2 \/ prob_weight >= 2 \/ total >= 3
                      THEN "Report" ELSE "No Report Required",
         factors |-> [sensitivity |-> sensitivity, probability_of_misuse |-> probability]]
RroshCalls ==
    { [fn |-> "generate_rrosh_decision", sensitivity |-> a, probability |-> b] :
          a \in Ratings, b \in Ratings }

\* a call of luhn_checksum on number_str and, where pos > 0, a second call on
\* number_str with the digit at pos replaced
LuhnCalls ==
    { [fn |-> "luhn_checksum", number_str |-> s, pos |-> p, digit |-> d] :
          s \in LuhnDigitStrings, p \in 1..MaxDigits, d \in AsciiDigits }
      \cup { [fn |-> "luhn_checksum", number_str |-> s, pos |-> 0, digit |-> "0"] :
                 s \in LuhnDigitStrings \cup LuhnOtherStrings }
SinCalls ==
    { [fn |-> "detect_sin", number_str |-> s] : s \in SinDigitStrings \cup SinOtherStrings }

\* csv_validator.py: an upload as validate_csv_file meets it. size_mb is
\* file_size_mb; reading says how the content and pd.read_csv behave: "utf-8"
\* reads at the first try, "latin-1" raises UnicodeDecodeError first and reads at
\* a fallback encoding, "undecodable" fails at every encoding, and the three
\* others are the exceptions of the outer try. row_count and column_count are
\* those of the frame pd.read_csv builds (it builds none without a column).
CsvReadings ==
    {"utf-8", "latin-1", "undecodable", "EmptyDataError", "ParserError", "Exception"}
CsvSizes == {1, 10, 11}
CsvRowCounts == {0, 1, 10001}
CsvColumnCounts == {1, 2, 51}
CsvFiles ==
    { [size_mb |-> s, reading |-> r, row_count |-> n, column_count |-> c] :
          s \in CsvSizes, r \in CsvReadings, n \in CsvRowCounts, c \in CsvColumnCounts }
CSVValidationResult ==
    [is_valid |-> TRUE, errors |-> <<>>, row_count |-> 0, column_count |-> 0,
     encoding |-> "utf-8"]
\* lines 129-168: the checks on the frame that was read; no path of them
\* returns before line 168
validate_frame(file, result) ==
    LET counted == [result EXCEPT !.row_count = file.row_count,
                                  !.column_count = file.column_count]
        rows == IF counted.row_count = 0
                THEN [counted EXCEPT !.errors = Append(@, "CSV file contains no data rows"),
                                     !.is_valid = FALSE]
                ELSE counted
        cols == IF rows.column_count = 0
                THEN [rows EXCEPT !.errors = Append(@, "CSV file contains no columns"),
                                  !.is_valid = FALSE]
                ELSE rows
    IN  [df |-> [row_count |-> file.row_count, column_count |-> file.column_count],
         result |-> cols]
validate_csv_file(file) ==
    LET result == CSVValidationResult
        failed(message) ==
            [df |-> None,
             result |-> [result EXCEPT !.errors = Append(@, message), !.is_valid = FALSE]]
    IN  CASE file.reading = "Exception" ->
                 failed("Unexpected error reading CSV")
          [] file.size_mb > 10 ->
                 failed("File size exceeds maximum allowed size of 10MB")
          [] file.reading = "utf-8" ->
                 validate_frame(file, result)
          [] file.reading = "latin-1" ->
                 validate_frame(file, [result EXCEPT !.encoding = "latin-1"])
          [] file.reading = "undecodable" ->
                 failed("Unable to decode file with common encodings")
          [] file.reading = "EmptyDataError" ->
                 failed("CSV file is empty or contains no data")
          [] OTHER ->
                 failed("CSV parsing error")
CsvCalls == { [fn |-> "validate_csv_file", file_content |-> f] : f \in CsvFiles }

RuleCalls ==
    { a \in LuhnCalls : a.pos <= Len(a.number_str) } \cup SinCalls
      \cup KeywordCalls \cup TwoKeywordCalls \cup PlainNameCalls
      \cup CellCalls \cup SeriesCalls \cup EnhancedCalls
      \cup FrameCalls \cup ScoreCalls \cup RecommendationCalls
      \cup RroshCalls \cup CsvCalls

RulesInit ==
    /\ InitProcess
    /\ workers = {}
    /\ uploads = {}
    /\ args \in RuleCalls
    /\ ret = [done |-> FALSE]

Returned(r) ==
    /\ UNCHANGED session_vars
    /\ ret' = [done |-> TRUE] @@ r
    /\ UNCHANGED <<is_trained, fitted, train_count, train_failures, workers, uploads,
                   requests, pc, frame, response, args>>

luhn_checksum_call ==
    /\ args.fn = "luhn_checksum"
    /\ ~ret.done
    /\ Returned([result |-> luhn_checksum(args.number_str),
                 changed |-> IF args.pos = 0 THEN luhn_checksum(args.number_str)
                             ELSE luhn_checksum(replace(args.number_str, args.pos, args.digit))])

detect_sin_call ==
    /\ args.fn = "detect_sin"
    /\ ~ret.done
    /\ Returned([result |-> detect_sin(args.number_str)])

_column_risk_by_name_call ==
    /\ args.fn = "_column_risk_by_name"
    /\ ~ret.done
    /\ Returned([result |-> _column_risk_by_name(args.col)])

_cell_risk_by_value_call ==
    /\ args.fn = "_cell_risk_by_value"
    /\ ~ret.done
    /\ Returned([result |-> _cell_risk_by_value(args.v)])

classify_series_call ==
    /\ args.fn = "classify_series"
    /\ ~ret.done
    /\ Returned([result |-> classify_series(args.name, args.series)])

classify_series_enhanced_call ==
    /\ args.fn = "classify_series_enhanced"
    /\ ~ret.done
    /\ Returned([result |-> classify_series_enhanced(args.name, args.series)])

\* classify_dataframe_enhanced and what the /enhanced_risk route computes from
\* its result, lines 446-448
classify_dataframe_enhanced_call ==
    /\ args.fn = "classify_dataframe_enhanced"
    /\ ~ret.done
    /\ LET r == classify_dataframe_enhanced(args.df) IN
        Returned(IF r.raised THEN [result |-> r]
                 ELSE [result |-> r, score |-> calculate_risk_score(r.value),
                       recs |-> generate_recommendations(r.value)])

calculate_risk_score_call ==
    /\ args.fn = "calculate_risk_score"
    /\ ~ret.done
    /\ Returned([result |-> calculate_risk_score(args.results)])

generate_recommendations_call ==
    /\ args.fn = "generate_recommendations"
    /\ ~ret.done
    /\ Returned([result |-> generate_recommendations(args.results)])

generate_rrosh_decision_call ==
    /\ args.fn = "generate_rrosh_decision"
    /\ ~ret.done
    /\ Returned([result |-> generate_rrosh_decision(args.sensitivity, args.probability)])

validate_csv_file_call ==
    /\ args.fn = "validate_csv_file"
    /\ ~ret.done
    /\ Returned(validate_csv_file(args.file_content))

RulesNext ==
    \/ luhn_checksum_call
    \/ detect_sin_call
    \/ _column_risk_by_name_call
    \/ _cell_risk_by_value_call
    \/ classify_series_call
    \/ classify_series_enhanced_call
    \/ classify_dataframe_enhanced_call
    \/ calculate_risk_score_call
    \/ generate_recommendations_call
    \/ generate_rrosh_decision_call
    \/ validate_csv_file_call
RulesSpec == RulesInit /\ [][RulesNext]_vars

(***************************************************************************)
(* Sessions: one SessionManager, the files of its storage directory, the   *)
(* clock, and the session object the caller holds                          *)
(***************************************************************************)
\* what the directory may hold under the name "found" when the manager is
\* constructed: nothing, text that is no JSON, a JSON object without the keys
\* of a session, a session without progress entries, a session with them
StoredSession(progress) ==
    asdict(SessionData("found", isoformat(0), isoformat(0),
                       [RiskAssessmentData EXCEPT !.dataset_name = "Sample Dataset",
                                                  !.total_rows = 2],
                       PolicyGeneratorData, ComplianceChecklistData, progress, FALSE)).value
FoundFiles ==
    {NoFile, NotJson, json_dumps([frontend_type |-> "flask"]),
     json_dumps(StoredSession(EmptyDict)),
     json_dumps(StoredSession(DefaultProgress))}
ModuleNames == {"risk_assessment", "unknown_module"}
Percentages == {-10, 50, 120}
\* what a client may send to /session/import
ImportedData ==
    [risk_assessment |-> [dataset_name |-> "Uploaded File", total_rows |-> 2],
     policy_generator |-> [company_name |-> "Acme"],
     compliance_checklist |-> EmptyDict,
     progress |-> [name \in {"risk_assessment"} |->
                       [completed |-> TRUE, completion_date |-> isoformat(0),
                        completion_percentage |-> 100, last_updated |-> isoformat(0)]]]
ImportTexts ==
    {NotJson,
     json_dumps([scalar |-> 5]),
     json_dumps([exported_at |-> isoformat(0), privacy_guardian_version |-> "1.0"]),
     json_dumps([exported_at |-> isoformat(0), privacy_guardian_version |-> "1.0",
                 data |-> ImportedData])}
reaches_create_session(json_data) ==
    /\ ~json_loads(json_data).raised
    /\ "scalar" \notin DOMAIN json_loads(json_data).value
    /\ "data" \in DOMAIN json_loads(json_data).value

SessionInit ==
    /\ IdleProcess
    /\ workers = {}
    /\ uploads = {}
    /\ args = [fn |-> "sessions"]
    /\ ret = [fn |-> "none"]
    /\ now = 0
    /\ imports \in BOOLEAN
    /\ storage_dir \in { [id \in SessionIds |-> IF id = "found" THEN f ELSE NoFile] :
                             f \in FoundFiles }
    /\ user_session = None
    /\ tokens = 0

SessionCall ==
    UNCHANGED <<is_trained, fitted, train_count, train_failures, workers, uploads,
                requests, pc, frame, response, args, imports>>

\* the clock moves between calls
tick ==
    /\ now + TickHours <= MaxHours
    /\ now' = now + TickHours
    /\ SessionCall
    /\ UNCHANGED <<storage_dir, user_session, tokens, ret>>

create_session_call ==
    /\ tokens < MaxSessions
    /\ LET made == create_session(tokens, storage_dir, now, imports) IN
        /\ storage_dir' = made.storage_dir
        /\ user_session' = made.session
        /\ ret' = [fn |-> "create_session", result |-> made.session]
    /\ tokens' = tokens + 1
    /\ SessionCall
    /\ UNCHANGED now

get_session_call ==
    \E session_id \in SessionIds \cup {""} :
        LET got == get_session(session_id, storage_dir, now, imports) IN
        /\ storage_dir' = got.storage_dir
        /\ user_session' = IF got.session = None THEN user_session ELSE got.session
        /\ ret' = [fn |-> "get_session", session_id |-> session_id, at |-> now,
                   before |-> IF session_id = "" THEN NoFile ELSE storage_dir[session_id],
                   after |-> IF session_id = "" THEN NoFile ELSE got.storage_dir[session_id],
                   held |-> user_session,
                   result |-> got.session]
        /\ SessionCall
        /\ UNCHANGED <<now, tokens>>

save_session_call ==
    /\ user_session # None
    /\ LET saved == save_session(user_session, storage_dir, now) IN
        /\ storage_dir' = saved.storage_dir
        /\ user_session' = update_last_accessed(user_session, now)
        /\ ret' = [fn |-> "save_session", result |-> saved.result]
    /\ SessionCall
    /\ UNCHANGED <<now, tokens>>

\* a helper of session_ui_helpers.py: changed is the session after the change
\* of progress; the helper saves it where module_name is one of its modules
helper_call(fn, module_name, changed) ==
    /\ IF module_name \in DOMAIN user_session.progress
       THEN LET saved == save_session(changed, storage_dir, now) IN
             /\ storage_dir' = saved.storage_dir
             /\ user_session' = update_last_accessed(changed, now)
             /\ ret' = [fn |-> fn, module_name |-> module_name,
                        before |-> user_session.progress[module_name],
                        result |-> saved.result]
       ELSE /\ ret' = [fn |-> fn, module_name |-> module_name, before |-> None,
                       result |-> FALSE]
            /\ UNCHANGED <<storage_dir, user_session>>
    /\ SessionCall
    /\ UNCHANGED <<now, tokens>>

update_module_progress_call ==
    /\ user_session # None
    /\ \E module_name \in ModuleNames, percentage \in Percentages :
           helper_call("update_module_progress", module_name,
                       update_module_progress(user_session, module_name, percentage, now))

mark_module_completed_call ==
    /\ user_session # None
    /\ \E module_name \in ModuleNames :
           helper_call("mark_module_completed", module_name,
                       mark_module_completed(user_session, module_name, now))

\* app.py 220-231: the /risk route stores its results in the session
risk_results ==
    /\ user_session # None
    /\ user_session.risk_assessment.dataset_name = "None"
    /\ helper_call("risk", "risk_assessment",
                   mark_module_completed(
                       [user_session EXCEPT !.risk_assessment.dataset_name = "Sample Dataset",
                                            !.risk_assessment.total_rows = 2],
                       "risk_assessment", now))

export_session_call ==
    /\ user_session # None
    /\ ret' = [fn |-> "export_session", session |-> user_session,
               result |-> export_session(user_session, now)]
    /\ SessionCall
    /\ UNCHANGED <<now, storage_dir, user_session, tokens>>

import_session_call ==
    \E json_data \in ImportTexts \cup
                     (IF ret.fn = "export_session" /\ ~ret.result.raised
                      THEN {ret.result.value} ELSE {}) :
        /\ reaches_create_session(json_data) => tokens < MaxSessions
        /\ LET imported == import_session(json_data, tokens, storage_dir, now, imports) IN
            /\ storage_dir' = imported.storage_dir
            /\ tokens' = IF imported.created THEN tokens + 1 ELSE tokens
            /\ user_session' = IF imported.created THEN imported.result.value ELSE user_session
            /\ ret' = [fn |-> "import_session", json_data |-> json_data,
                       exported |-> IF ret.fn = "export_session" /\ ~ret.result.raised
                                       /\ json_data = ret.result.value
                                    THEN ret.session ELSE None,
                       created |-> imported.created,
                       files |-> {id \in SessionIds : imported.storage_dir[id] # storage_dir[id]},
                       result |-> imported.result]
        /\ SessionCall
        /\ UNCHANGED now

\* app.py 151-159: /session/clear deletes the file and forgets the session
delete_session_call ==
    \E session_id \in SessionIds :
        /\ storage_dir[session_id] # NoFile
        /\ storage_dir' = delete_session(session_id, storage_dir)
        /\ user_session' = IF user_session # None /\ user_session.session_id = session_id
                           THEN None ELSE user_session
        /\ ret' = [fn |-> "delete_session", session_id |-> session_id, result |-> TRUE]
        /\ SessionCall
        /\ UNCHANGED <<now, tokens>>

SessionNext ==
    \/ tick
    \/ create_session_call
    \/ get_session_call
    \/ save_session_call
    \/ update_module_progress_call
    \/ mark_module_completed_call
    \/ risk_results
    \/ export_session_call
    \/ import_session_call
    \/ delete_session_call
SessionSpec == SessionInit /\ [][SessionNext]_vars

(***************************************************************************)
(* Properties                                                              *)
(***************************************************************************)
RuleRank == risk_hierarchy[ret.rule.final_risk]
MlRank == risk_hierarchy[ret.ml.ml_final_risk]
HybridRank == risk_hierarchy[ret.value.hybrid_final_risk]

\* C1: the fused verdict of hybrid_classify_series is at least the rule-based
\* final verdict and at least the statistical final verdict, and is the
\* larger of the two (Low < Medium < High).
C1_FusionIsMax ==
    ret.done =>
        /\ HybridRank >= RuleRank
        /\ HybridRank >= MlRank
        /\ HybridRank = Max(RuleRank, MlRank)

\* the statistical verdict is the strictly higher one and the fusion is done
C1_Witness == ret.done /\ MlRank > RuleRank /\ HybridRank = MlRank

\* C2: the method tag follows the comparison of the two final verdicts:
\* statistical higher gives "ml_enhanced" and the statistical verdict, rule-
\* based higher gives "rule_based" and the rule-based verdict, equal verdicts
\* give "consensus" and the rule-based verdict; there is no other tag.
C2_MethodTag ==
    ret.done =>
        /\ ret.value.hybrid_method \in {"ml_enhanced", "rule_based", "consensus"}
        /\ MlRank > RuleRank =>
               /\ ret.value.hybrid_method = "ml_enhanced"
               /\ ret.value.hybrid_final_risk = ret.ml.ml_final_risk
        /\ RuleRank > MlRank =>
               /\ ret.value.hybrid_method = "rule_based"
               /\ ret.value.hybrid_final_risk = ret.rule.final_risk
        /\ RuleRank = MlRank =>
               /\ ret.value.hybrid_method = "consensus"
               /\ ret.value.hybrid_final_risk = ret.rule.final_risk

\* both verdicts are Medium and the fusion is tagged as a consensus
C2_Witness ==
    /\ ret.done
    /\ ret.rule.final_risk = "Medium"
    /\ ret.ml.ml_final_risk = "Medium"
    /\ ret.value.hybrid_method = "consensus"


\* C3: every classification of a dataset returns, without raising, one record
\* per column in column order: rule-based, enhanced and hybrid alike.
C3_OneVerdictPerColumn ==
    \A w \in workers :
        pc[w] = "done" =>
            /\ ~response[w].raised
            /\ Len(response[w].results) = Len(response[w].df)
            /\ \A c \in 1..Len(response[w].df) :
                   response[w].results[c].column = response[w].df[c].name

ValidPair(p) ==
    /\ ~p.raised
    /\ p.value.risk \in RISK_LEVELS
    /\ p.value.confidence \in 0..10000

\* C4: predict_column_risk and predict_data_risk never raise to their caller;
\* each returns a risk level with a confidence in [0, 1], and the pair is
\* (Low, 0.1) whenever an exception occurred during the prediction.
C4_PredictNeverRaises ==
    \A w \in workers :
        /\ (pc[w] = "done" /\ response[w].route = "risk") => ~response[w].except_branch
        /\ pc[w] = "predict_155" =>
               /\ ValidPair(frame[w].name_pred)
               /\ frame[w].pred_exc => frame[w].name_pred.value = SAFE_DEFAULT
        /\ pc[w] = "ml_226" =>
               /\ ValidPair(frame[w].name_pred)
               /\ ValidPair(frame[w].data_pred)
               /\ frame[w].pred_exc => frame[w].data_pred.value = SAFE_DEFAULT

\* training has failed, predict_data_risk met an exception and returned the default
C4_Witness ==
    \E w \in workers :
        /\ pc[w] = "ml_226"
        /\ train_failures > 0
        /\ frame[w].pred_exc
        /\ frame[w].data_pred = Return(SAFE_DEFAULT)

\* C5: train is executed once in the lifetime of the process, on the first
\* prediction that needs it, and never again.
C5_TrainedOnce == train_count <= 1

\* C6: with requests served concurrently, no two threads are inside train at
\* the same time and no second execution of train starts after the first.
C6_OnceOnlyGuard ==
    /\ \A a, b \in workers : a # b => ~(pc[a] \in TrainLines /\ pc[b] \in TrainLines)
    /\ train_count <= 1

\* the try block of a prediction, which reads the estimators
Reading(w) ==
    \/ pc[w] = "predict_136"
    \/ /\ pc[w] = "predict_158"
       /\ sample_of(frame[w].df[frame[w].c].series, ML_SAMPLE_SIZE) # <<>>
\* train at work on the estimators
Fitting(w) == pc[w] \in TrainLines \ {"train_124"}

\* C7: once is_trained is True no thread is inside train, and no prediction
\* reads the estimators while another thread is fitting them.
C7_ReadOnlyAfterTraining ==
    /\ is_trained => \A w \in workers : pc[w] \notin TrainLines
    /\ \A a, b \in workers : a # b => ~(Reading(a) /\ Fitting(b))

\* C8: a failed train returns False and leaves is_trained False; a prediction
\* call made after a failure invokes train exactly once, and returns the safe
\* default when that training failed too.
C8_TrainingFailure ==
    \A w \in workers :
        /\ (pc[w] \in {"predict_136", "predict_158"} /\ frame[w].call_trains = 1
                /\ ~frame[w].train_result) => ~is_trained
        /\ pc[w] \in {"predict_136", "predict_158", "predict_155", "ml_226"} =>
               (frame[w].call_after_failure => frame[w].call_trains = 1)
        /\ (pc[w] = "predict_155" /\ frame[w].call_trains = 1 /\ ~frame[w].train_result) =>
               frame[w].name_pred = Return(SAFE_DEFAULT)
        /\ (pc[w] = "ml_226" /\ frame[w].call_trains = 1 /\ ~frame[w].train_result) =>
               frame[w].data_pred = Return(SAFE_DEFAULT)

\* a prediction made after an earlier failure has trained once more, failed
\* again and returned the safe default
C8_Witness ==
    \E w \in workers :
        /\ pc[w] = "ml_226"
        /\ frame[w].call_after_failure
        /\ frame[w].call_trains = 1
        /\ ~frame[w].train_result
        /\ ~is_trained
        /\ train_failures >= 2
        /\ frame[w].data_pred = Return(SAFE_DEFAULT)

RuleOnlyFields == {"column", "name_hint_risk", "value_sample_risk", "final_risk"}

\* C9: when training or prediction of the statistical classifier failed during
\* a hybrid classification, the /risk route returns the rule-based-only
\* records and counts for every column of the dataset.
C9_DatasetLevelFallback ==
    \A w \in workers :
        (pc[w] = "done" /\ response[w].route = "risk" /\ response[w].stat_failed) =>
            /\ response[w].except_branch
            /\ \A c \in 1..Len(response[w].results) :
                   DOMAIN response[w].results[c] = RuleOnlyFields
            /\ response[w].summary = summarize_risk_levels(classify_dataframe(response[w].df))

\* C10: the corpus holds one label per example, for the column names and for
\* the value strings, so that no execution of train fails.
C10_CorpusLabelled ==
    /\ train_failures = 0
    /\ train_count > 0 =>
           /\ len(column_labels) = len(column_names)
           /\ len(pattern_labels) = len(data_patterns)

\* the decimal digits of a string, as numbers
DecimalDigits(s) ==
    LET IsDecimal(ch) == ch \in AsciiDigits
        kept == SelectSeq(s, IsDecimal)
    IN  [k \in 1..Len(kept) |-> int(kept[k])]
Folded(d) == IF 2 * d > 9 THEN 2 * d - 9 ELSE 2 * d
\* the weighted sum of the reference check over the digits 1..k: the digit
\* j places left of the last one is doubled and folded when j is odd
RECURSIVE WeightedSum(_, _)
WeightedSum(digits, k) ==
    IF k = 0 THEN 0
    ELSE (IF (Len(digits) - k) % 2 = 1 THEN Folded(digits[k]) ELSE digits[k])
         + WeightedSum(digits, k - 1)
ReferenceLuhn(s) ==
    /\ Len(DecimalDigits(s)) >= 12
    /\ WeightedSum(DecimalDigits(s), Len(DecimalDigits(s))) % 10 = 0

\* C11: on every input luhn_checksum returns the answer of the reference
\* weighted-doubling check: False with fewer than 12 digits left after the
\* non-digits are stripped, else whether the weighted sum is divisible by 10.
C11_LuhnIsReference ==
    (ret.done /\ args.fn = "luhn_checksum") =>
        /\ ~ret.result.raised
        /\ ret.result.value = ReferenceLuhn(args.number_str)

\* the same on the strings in which str.isdigit() holds of decimal digits only
C11_LuhnIsReferenceOnDecimal ==
    (ret.done /\ args.fn = "luhn_checksum" /\ ~int_raises(args.number_str)) =>
        /\ ~ret.result.raised
        /\ ret.result.value = ReferenceLuhn(args.number_str)

\* C12: a digit string of 12 digits or more that luhn_checksum accepts is
\* rejected once any one of its digits is replaced by a different digit.
C12_SingleDigitError ==
    (ret.done /\ args.fn = "luhn_checksum" /\ args.pos > 0
        /\ Len(args.number_str) >= 12
        /\ ret.result = Return(TRUE)
        /\ args.digit # args.number_str[args.pos]) =>
            ret.changed = Return(FALSE)

\* an accepted card number of 16 digits with its first digit changed
C12_Witness ==
    /\ ret.done
    /\ args.fn = "luhn_checksum"
    /\ args.number_str = SubSeq(LuhnBase, 1, 16)
    /\ args.pos = 1
    /\ args.digit = "5"
    /\ ret.result = Return(TRUE)
    /\ ret.changed = Return(FALSE)

\* the check of the claim on nine digits d1..d9
ReferenceSin(s) ==
    LET d == DecimalDigits(s)
        S == d[1] + Folded(d[2]) + d[3] + Folded(d[4]) + d[5] + Folded(d[6]) + d[7] + Folded(d[8])
    IN  /\ Len(d) = 9
        /\ d[9] = (10 - (S % 10)) % 10

\* C13: detect_sin rejects every input that does not have exactly nine digits
\* and accepts nine digits iff the ninth is the check digit of the first eight.
C13_SinIsReference ==
    (ret.done /\ args.fn = "detect_sin") =>
        /\ ~ret.result.raised
        /\ ret.result.value = ReferenceSin(args.number_str)

C13_SinIsReferenceOnDecimal ==
    (ret.done /\ args.fn = "detect_sin" /\ ~int_raises(args.number_str)) =>
        /\ ~ret.result.raised
        /\ ret.result.value = ReferenceSin(args.number_str)


\* the tier of a name by the keywords it is built from, High before Medium
TierOf(parts) ==
    IF parts \cap HIGH_NAME_HINTS # {} THEN "High"
    ELSE IF parts \cap MEDIUM_NAME_HINTS # {} THEN "Medium"
    ELSE "Low"

\* C14: the name risk is High iff the name holds a High keyword in any casing,
\* else Medium iff it holds a Medium keyword, else Low; and a column whose
\* name risk is High has the rule-based final risk High whatever its values.
C14_NameRisk ==
    /\ (ret.done /\ args.fn = "_column_risk_by_name") =>
           /\ ret.result = TierOf(args.parts)
           /\ ret.result = "High" <=> \E h \in HIGH_NAME_HINTS : contains(lower(args.col), h)
           /\ ret.result = "Low" <=>
                  \A h \in HIGH_NAME_HINTS \cup MEDIUM_NAME_HINTS : ~contains(lower(args.col), h)
    /\ (ret.done /\ args.fn = "classify_series") =>
           /\ ret.result.name_hint_risk = "High" => ret.result.final_risk = "High"
           /\ args.name = <<"s","s","n">> => ret.result.final_risk = "High"

\* "SSN" in capitals inside a name, over values that match no pattern
C14_Witness ==
    /\ ret.done
    /\ args.fn = "classify_series"
    /\ args.name = <<"C","u","s","t","_","S","S","N">>
    /\ args.series = <<Val(CUST001), Val(CUST002)>>
    /\ ret.result.name_hint_risk = "High"
    /\ ret.result.value_sample_risk = "Low"
    /\ ret.result.final_risk = "High"


HighShapes == {"email", "sin", "card"}
MediumShapes == {"phone", "dob", "postal", "ip", "latlon"}
PatternOf(shape) ==
    CASE shape = "email" -> EMAIL_RE [] shape = "sin" -> SIN_RE [] shape = "card" -> CREDIT_CARD_RE
      [] shape = "phone" -> PHONE_RE [] shape = "dob" -> DOB_RE [] shape = "postal" -> POSTAL_CA_RE
      [] shape = "ip" -> IP_RE [] shape = "latlon" -> LATLON_RE

\* C15: _cell_risk_by_value gives a risk level for every value: Low for a
\* missing, empty or blank value, High for a value of email, national-ID or
\* card shape even when a Medium pattern matches it too, Medium for any other
\* value of phone, date, postal, IP or lat-long shape, Low for the rest.
C15_CellRisk ==
    (ret.done /\ args.fn = "_cell_risk_by_value") =>
        /\ ret.result \in RISK_LEVELS
        /\ (args.v.na \/ strip(args.v.text) = <<>>) => ret.result = "Low"
        /\ ~args.v.na =>
               args.shapes = {sh \in HighShapes \cup MediumShapes :
                                 re_match(PatternOf(sh), strip(args.v.text))}
        /\ ret.result = "High" <=> args.shapes \cap HighShapes # {}
        /\ ret.result = "Medium" <=>
               (args.shapes \cap HighShapes = {} /\ args.shapes \cap MediumShapes # {})
        /\ ret.result = "Low" <=> args.shapes = {}

\* a value of national-ID shape between blanks, which the phone pattern
\* matches too
C15_Witness ==
    /\ ret.done
    /\ args.fn = "_cell_risk_by_value"
    /\ args.v = Val(<<" ">> \o SIN_SHAPED \o <<" ">>)
    /\ args.shapes = {"sin", "phone"}
    /\ ret.result = "High"


\* the cells of a series that are among its first SAMPLE_SIZE non-missing ones
Sampled(series) ==
    LET kept == {k \in 1..Len(series) : ~series[k].na}
    IN  {k \in kept : Cardinality({j \in kept : j <= k}) <= SAMPLE_SIZE}
\* the largest cell rank over all of them, 0 when there is none
WholeSampleRank(series) ==
    MaxOf({0} \cup {risk_hierarchy[_cell_risk_by_value(series[k])] : k \in Sampled(series)})

\* C16: classify_series reports as value_sample_risk the largest cell risk over
\* the first 200 non-missing values, just as a scan of the whole sample
\* would, and as final_risk the larger of name risk and value risk; "id" over
\* values that match no pattern is Low.
C16_SeriesIsMaximum ==
    (ret.done /\ args.fn = "classify_series") =>
        /\ ret.result.column = args.name
        /\ ret.result.name_hint_risk = _column_risk_by_name(args.name)
        /\ ret.result.value_sample_risk = risk_of_rank[WholeSampleRank(args.series) + 1]
        /\ risk_hierarchy[ret.result.final_risk] =
               Max(risk_hierarchy[ret.result.name_hint_risk],
                   risk_hierarchy[ret.result.value_sample_risk])
        /\ (args.name = <<"i","d">> /\ WholeSampleRank(args.series) = 0) =>
               ret.result.final_risk = "Low"

\* "id" over a column whose only value of a pattern is the first after the sample
C16_Witness ==
    /\ ret.done
    /\ args.fn = "classify_series"
    /\ args.name = <<"i","d">>
    /\ args.series = LongSeries(SAMPLE_SIZE + 1, A_B_CO)
    /\ ret.result.value_sample_risk = "Low"
    /\ ret.result.final_risk = "Low"


\* the digits of a value pass one of the two checksum validators
PassesChecksum(text) ==
    LET s == digit_chars(text) IN
    \/ Len(s) >= 12 /\ luhn_checksum(s) = Return(TRUE)
    \/ Len(s) = 9 /\ detect_sin(s) = Return(TRUE)
SampleHasChecksum(series) == \E k \in Sampled(series) : PassesChecksum(series[k].text)

\* C17: classify_series_enhanced sets contains_card_or_sin iff a value among
\* the first 200 non-missing ones has digits that pass luhn_checksum (12 or
\* more digits) or detect_sin (9 digits), and then reports High whatever the
\* name risk and the pattern risk of the values.
C17_ChecksumEscalation ==
    (ret.done /\ args.fn = "classify_series_enhanced") =>
        /\ ~ret.result.raised
        /\ ret.result.value.contains_card_or_sin = SampleHasChecksum(args.series)
        /\ ret.result.value.contains_card_or_sin => ret.result.value.final_risk = "High"

\* the same of the calls that return
C17_ChecksumEscalationOnReturn ==
    (ret.done /\ args.fn = "classify_series_enhanced" /\ ~ret.result.raised) =>
        /\ ret.result.value.contains_card_or_sin = SampleHasChecksum(args.series)
        /\ ret.result.value.contains_card_or_sin => ret.result.value.final_risk = "High"


\* the validator that sets the flag on a sample: that of the first value that
\* passes one
FiredValidator(series) ==
    LET passing == {k \in Sampled(series) : PassesChecksum(series[k].text)} IN
    IF passing = {} THEN "none"
    ELSE IF Len(digit_chars(series[MinOf(passing)].text)) = 9 THEN "sin"
    ELSE "card"
\* what a verdict says besides the column it is about
Besides(r) == [f \in DOMAIN r \ {"column"} |-> r[f]]

\* the wordings of the recommendations that name a column
WordingsFor(recs, name) == {recs[k].wording : k \in {j \in 1..Len(recs) : recs[j].column = name}}

\* C18 as stated: the verdict forced to High records which validator fired, so
\* that the verdicts, and the recommendations made of them, differ between a
\* column where the card validator fired and one where the SIN validator did.
C18_RecordsValidator ==
    (ret.done /\ args.fn = "classify_dataframe_enhanced" /\ ~ret.result.raised) =>
        \A a, b \in 1..Len(args.df) :
            (/\ FiredValidator(args.df[a].series) = "card"
             /\ FiredValidator(args.df[b].series) = "sin") =>
                /\ Besides(ret.result.value[a]) # Besides(ret.result.value[b])
                /\ WordingsFor(ret.recs, args.df[a].name) # WordingsFor(ret.recs, args.df[b].name)

\* C18: the verdict forced to High records that a validator fired, in
\* contains_card_or_sin, and nothing else: its fields are column, final_risk
\* and contains_card_or_sin, and a column where the card validator fired and
\* one where the SIN validator fired get the same verdict and the same
\* recommendation wording.
C18_RecordsOnlyTheFlag ==
    (ret.done /\ args.fn = "classify_dataframe_enhanced" /\ ~ret.result.raised) =>
        /\ \A a \in 1..Len(args.df) :
               /\ DOMAIN ret.result.value[a] = {"column", "final_risk", "contains_card_or_sin"}
               /\ ret.result.value[a].contains_card_or_sin =
                      (FiredValidator(args.df[a].series) # "none")
               /\ FiredValidator(args.df[a].series) # "none" =>
                      /\ ret.result.value[a].final_risk = "High"
                      /\ WordingsFor(ret.recs, args.df[a].name) = {"credit card numbers or SINs"}
        /\ \A a, b \in 1..Len(args.df) :
               (/\ FiredValidator(args.df[a].series) = "card"
                /\ FiredValidator(args.df[b].series) = "sin") =>
                    /\ Besides(ret.result.value[a]) = Besides(ret.result.value[b])
                    /\ WordingsFor(ret.recs, args.df[a].name) = WordingsFor(ret.recs, args.df[b].name)

\* a dataset with a card column and a SIN column
C18_Witness ==
    /\ ret.done
    /\ args.fn = "classify_dataframe_enhanced"
    /\ ~ret.result.raised
    /\ FiredValidator(args.df[1].series) = "card"
    /\ FiredValidator(args.df[2].series) = "sin"
    /\ ret.result.value[1].contains_card_or_sin
    /\ ret.result.value[2].contains_card_or_sin
    /\ ret.recs[1].wording = "credit card numbers or SINs"
    /\ ret.recs[2].wording = "credit card numbers or SINs"


Levels(results) == [k \in 1..Len(results) |-> results[k].final_risk]
NumberOf(results, level) == Cardinality({k \in 1..Len(results) : results[k].final_risk = level})

\* C19: calculate_risk_score returns the score 1 per Low, 2 per Medium and 3
\* per High verdict, the maximum 3 per verdict and the percentage
\* 100 * score / maximum, hence n <= score <= 3n for n > 0 verdicts; High,
\* Medium, Low give 6, 9 and 66.7; the empty list gives 0, 0 and 0.0.
C19_RiskScore ==
    (ret.done /\ args.fn = "calculate_risk_score") =>
        LET n == Len(args.results)
            r == ret.result
        IN  /\ r.score = NumberOf(args.results, "Low") + 2 * NumberOf(args.results, "Medium")
                            + 3 * NumberOf(args.results, "High")
            /\ r.max_score = 3 * n
            /\ n > 0 =>
                   /\ n <= r.score /\ r.score <= 3 * n
                   /\ r.pct * r.max_score <= 100000 * r.score
                   /\ 100000 * r.score < (r.pct + 1) * r.max_score
            /\ n = 0 => r = [score |-> 0, max_score |-> 0, pct |-> 0]
            /\ Levels(args.results) = <<"High", "Medium", "Low">> =>
                   /\ r.score = 6 /\ r.max_score = 9
                   /\ (r.pct + 50) \div 100 = 667

\* the verdicts High, Medium, Low
C19_Witness ==
    /\ ret.done
    /\ args.fn = "calculate_risk_score"
    /\ Levels(args.results) = <<"High", "Medium", "Low">>
    /\ ret.result = [score |-> 6, max_score |-> 9, pct |-> 66666]

\* the verdicts that get a line, and the i-th of them in column order
Flagged(results) == {k \in 1..Len(results) : results[k].final_risk \in {"High", "Medium"}}
FlaggedAt(results, i) ==
    CHOOSE k \in Flagged(results) : Cardinality({j \in Flagged(results) : j <= k}) = i
WordingOf(r) ==
    IF r.final_risk = "Medium" THEN "moderately sensitive data"
    ELSE IF "contains_card_or_sin" \in DOMAIN r /\ r.contains_card_or_sin
    THEN "credit card numbers or SINs"
    ELSE "highly sensitive data"

\* C20: generate_recommendations gives one line per High or Medium column, in
\* column order, none per Low column: the card/SIN wording for a High column
\* with contains_card_or_sin set, the high-sensitivity wording for any other
\* High column; the one low-risk line is given iff no column is High or
\* Medium, so there are max(1, #High + #Medium) lines.
C20_Recommendations ==
    (ret.done /\ args.fn = "generate_recommendations") =>
        LET results == args.results
            recs == ret.result
        IN  /\ Len(recs) = Max(1, NumberOf(results, "High") + NumberOf(results, "Medium"))
            /\ Flagged(results) = {} <=> (\E k \in 1..Len(recs) : recs[k].wording = "low risk")
            /\ Flagged(results) = {} => recs = <<[wording |-> "low risk", column |-> <<>>]>>
            /\ Flagged(results) # {} =>
                   \A i \in 1..Len(recs) :
                       /\ recs[i].column = results[FlaggedAt(results, i)].column
                       /\ recs[i].wording = WordingOf(results[FlaggedAt(results, i)])

\* a High column with the flag, a Low column and a Medium column: two lines
C20_Witness ==
    /\ ret.done
    /\ args.fn = "generate_recommendations"
    /\ Levels(args.results) = <<"High", "Low", "Medium">>
    /\ args.results[1].contains_card_or_sin
    /\ ret.result = <<[wording |-> "credit card numbers or SINs", column |-> VerdictName(1)],
                      [wording |-> "moderately sensitive data", column |-> VerdictName(3)]>>


\* C21: a dataset classified again in the same process, by the same kind of
\* pass, gets the verdicts of the first pass: rule-based, enhanced and hybrid
\* alike, the first hybrid pass being the one that starts the training.
C21_SameVerdictsAgain ==
    \A w \in workers :
        pc[w] = "done" =>
            \A f \in ret.first :
                f.pass = PassOf(response[w]) => f.outcome = OutcomeOf(response[w])

\* a second hybrid pass returns, after the first one started the training
C21_Witness ==
    \E w \in workers :
        /\ pc[w] = "done"
        /\ response[w].route = "risk"
        /\ response[w].method_name = "Hybrid (ML + Rules)"
        /\ train_count >= 4
        /\ \E f \in ret.first :
               /\ f.pass = PassOf(response[w])
               /\ f.outcome = Return(response[w].results)


\* C22: classify_column_ml reports as ml_final_risk the larger of ml_name_risk
\* and ml_data_risk, as ml_primary_factor a side ("column_name" or
\* "data_pattern") whose risk is ml_final_risk, and as ml_final_confidence the
\* confidence of that side; the fused record carries ml_final_confidence as
\* confidence_score whichever verdict won the fusion.
C22_StatisticalCombination ==
    ret.done =>
        LET ml == ret.ml IN
        /\ ml.ml_name_risk = args.name_pred.risk
        /\ ml.ml_data_risk = args.data_pred.risk
        /\ risk_hierarchy[ml.ml_final_risk] =
               Max(risk_hierarchy[ml.ml_name_risk], risk_hierarchy[ml.ml_data_risk])
        /\ ml.ml_primary_factor \in {"column_name", "data_pattern"}
        /\ ml.ml_primary_factor = "column_name" =>
               /\ ml.ml_final_risk = ml.ml_name_risk
               /\ ml.ml_final_confidence = ml.ml_name_confidence
               /\ ml.ml_final_confidence = round3(args.name_pred.confidence)
        /\ ml.ml_primary_factor = "data_pattern" =>
               /\ ml.ml_final_risk = ml.ml_data_risk
               /\ ml.ml_final_confidence = ml.ml_data_confidence
               /\ ml.ml_final_confidence = round3(args.data_pred.confidence)
        /\ ret.value.confidence_score = ml.ml_final_confidence

\* the data side decides with a confidence below that of the name side, and
\* the rule-based verdict wins the fusion
C22_Witness ==
    /\ ret.done
    /\ ret.ml.ml_primary_factor = "data_pattern"
    /\ args.data_pred.confidence < args.name_pred.confidence
    /\ ret.value.hybrid_method = "rule_based"
    /\ ret.value.confidence_score = round3(args.data_pred.confidence)


\* C23: generate_rrosh_decision decides "Report" when the sensitivity or the
\* probability is High and when both are Medium, and "No Report Required" for
\* every other pair of the ratings Low, Medium, High.
C23_RroshRule ==
    (/\ ret.done
     /\ args.fn = "generate_rrosh_decision"
     /\ args.sensitivity \in RISK_LEVELS
     /\ args.probability \in RISK_LEVELS) =>
        ret.result.decision =
            IF \/ args.sensitivity = "High"
               \/ args.probability = "High"
               \/ (args.sensitivity = "Medium" /\ args.probability = "Medium")
            THEN "Report"
            ELSE "No Report Required"


\* C24: on every return of validate_csv_file the returned DataFrame is not
\* None exactly when result.is_valid is True.
C24_FrameIffValid ==
    (ret.done /\ args.fn = "validate_csv_file") =>
        ((ret.df # None) <=> ret.result.is_valid)

\* the module data and the progress of a session
ModuleData(session) ==
    <<session.risk_assessment, session.policy_generator, session.compliance_checklist,
      session.progress>>
\* a file that holds a session
HoldsSession(file) ==
    /\ "json" \in DOMAIN file
    /\ {"session_id", "created_at", "last_accessed", "session_timeout_hours"}
           \subseteq DOMAIN file.json
    /\ "iso" \in DOMAIN file.json.last_accessed
\* the helpers of session_ui_helpers.py and the route that calls one
ProgressCalls == {"update_module_progress", "mark_module_completed", "risk"}

\* C25: save_session reports success, and get_session of the id of the session
\* the caller created or saved, made before that session expires, returns a
\* session with the same session_id, module data and progress.
C25_SessionPersists ==
    /\ ret.fn = "save_session" => ret.result = TRUE
    /\ (/\ ret.fn = "get_session"
        /\ ret.held # None
        /\ ret.held.session_id = ret.session_id
        /\ ret.at <= ret.held.last_accessed.iso + ret.held.session_timeout_hours)
       => /\ ret.result # None
          /\ ret.result.session_id = ret.held.session_id
          /\ ModuleData(ret.result) = ModuleData(ret.held)

\* C26: export_session returns a JSON text without raising; import_session of
\* that text returns a new session with another session_id and the module data
\* and progress of the exported one; import_session of text that is no JSON or
\* has no "data" key returns None and creates no session.
C26_ExportImportRoundTrip ==
    /\ ret.fn = "export_session" =>
           ~ret.result.raised /\ "json" \in DOMAIN ret.result.value
    /\ (ret.fn = "import_session" /\ ret.exported # None) =>
           /\ ~ret.result.raised
           /\ ret.result.value # None
           /\ ret.created
           /\ ret.result.value.session_id # ret.exported.session_id
           /\ ModuleData(ret.result.value) = ModuleData(ret.exported)
    /\ (/\ ret.fn = "import_session"
        /\ \/ json_loads(ret.json_data).raised
           \/ "data" \notin DOMAIN json_loads(ret.json_data).value) =>
           /\ ~ret.result.raised
           /\ ret.result.value = None
           /\ ~ret.created
           /\ ret.files = {}

C29_ProgressInvariant ==
    user_session # None =>
        /\ \A name \in DOMAIN user_session.progress :
               /\ user_session.progress[name].completion_percentage \in 0..100
               /\ user_session.progress[name].completed =>
                      user_session.progress[name].completion_percentage = 100
        /\ (ret.fn \in ProgressCalls /\ ret.before # None /\ ret.before.completed) =>
               user_session.progress[ret.module_name].completed

\* the records hybrid_classify_series made in the request w serves or served
HybridRecords(w) ==
    {frame[w].results[c] : c \in 1..Len(frame[w].results)}
        \cup (IF pc[w] = "done" /\ ~response[w].raised
              THEN {response[w].results[c] : c \in 1..Len(response[w].results)}
              ELSE {})

\* C28: with the built-in corpus the statistical side stays at Low: in every
\* state of the process both predictions of a column are Low, every hybrid
\* record has ml_final_risk Low and hybrid_final_risk equal to the rule-based
\* final_risk, and its hybrid_method is "rule_based" or "consensus".
C28_StatisticalSideStaysLow ==
    \A w \in workers :
        /\ pc[w] = "ml_226" =>
               classify_column_ml(frame[w].df[frame[w].c].name, frame[w].name_pred.value,
                                  frame[w].data_pred.value).ml_final_risk = "Low"
        /\ \A r \in HybridRecords(w) :
               "hybrid_method" \in DOMAIN r =>
                   /\ r.ml_final_risk = "Low"
                   /\ r.hybrid_final_risk = r.final_risk
                   /\ r.hybrid_method \in {"rule_based", "consensus"}

\* a hybrid classification returned a column the rules put at High, tagged
\* rule_based, next to a column they put at Low, tagged consensus
C28_Witness ==
    \E w \in workers :
        /\ pc[w] = "done"
        /\ response[w].route = "risk"
        /\ response[w].method_name = "Hybrid (ML + Rules)"
        /\ ~response[w].except_branch
        /\ \E a, b \in HybridRecords(w) :
               /\ a.final_risk = "High" /\ a.hybrid_method = "rule_based"
               /\ a.ml_final_risk = "Low" /\ a.hybrid_final_risk = "High"
               /\ b.final_risk = "Low" /\ b.hybrid_method = "consensus"
               /\ b.ml_final_risk = "Low" /\ b.hybrid_final_risk = "Low"

\* C30: for every column name and series classify_series_enhanced returns a
\* final_risk that is at least the final_risk of classify_series, and the same
\* one whenever contains_card_or_sin is False.
C30_EnhancedNeverLowers ==
    (ret.done /\ args.fn = "classify_series_enhanced") =>
        /\ ~ret.result.raised
        /\ risk_hierarchy[ret.result.value.final_risk]
               >= risk_hierarchy[classify_series(args.name, args.series).final_risk]
        /\ ~ret.result.value.contains_card_or_sin =>
               ret.result.value.final_risk = classify_series(args.name, args.series).final_risk

\* the same of the calls that return
C30_EnhancedNeverLowersOnReturn ==
    (ret.done /\ args.fn = "classify_series_enhanced" /\ ~ret.result.raised) =>
        /\ risk_hierarchy[ret.result.value.final_risk]
               >= risk_hierarchy[classify_series(args.name, args.series).final_risk]
        /\ ~ret.result.value.contains_card_or_sin =>
               ret.result.value.final_risk = classify_series(args.name, args.series).final_risk


============================================================================
